---- MODULE Spec2Model ----
(***************************************************************************)
(* gh-down: a command-line status reporter.  The repository holds two     *)
(* generations of the program:                                            *)
(*   - the retry-capable run (client.go, version 0.2.0): run, fetchJSON,  *)
(*     waitForRetry, classifyError, filterResolved;                       *)
(*   - the status client and report builder (client.go version 0.3.0,     *)
(*     report.go, render.go, config.go): statusClient, buildReport.       *)
(* SpecFetch is the state machine of the retry-capable run, SpecReport    *)
(* the one of buildReport, SpecMain the one of main over parseFlags,      *)
(* buildReport and renderReport.  SpecResolved applies the resolved       *)
(* filters of both generations to bounded incident lists, SpecRank        *)
(* incidentTime, summarizeUpdates and sortIncidents, SpecComponents       *)
(* filterComponents to bounded component lists.  SpecMains runs main of   *)
(* either generation, SpecStatus applies formatStatus and statusIcon to   *)
(* bounded status strings, SpecRender renderJSON of both generations to   *)
(* bounded reports.                                                       *)
(***************************************************************************)
EXTENDS Integers, Sequences, FiniteSets, TLC

VARIABLES
    opts,       \* options of the retry-capable run
    stage,      \* the endpoint run is fetching: "components", "unresolved", "all"; "end" after run returned
    pc,         \* position inside fetchJSON: "request", "sleep", "returned"; "done" after run returned
    attempt,    \* fetchJSON's loop counter
    calls,      \* client.Do calls made by the current fetchJSON call
    lastErr,    \* fetchJSON's lastErr
    received,   \* what the last attempt of the running fetchJSON call ended in, NoAttempt before the first
    backoff,    \* the duration waitForRetry armed its timer with (int64 nanoseconds)
    expired,    \* the context of run has passed its deadline
    runErr,     \* the error run returned
    feed,       \* an incident list handed to the resolved filters
    fpc,        \* "input", then "recent" after RecentResolvedIncidents, then "capped" after filterResolved
    results,    \* what RecentResolvedIncidents returned for feed
    capped,     \* what filterResolved returned for feed
    cfg,        \* config of buildReport
    rpc,        \* the request buildReport issues next: "components", "active", "resolved"; "done" after it returned
    r,          \* the report buildReport builds and returns
    rerr,       \* the error buildReport returned
    requests,   \* the endpoints buildReport has sent a request to, in order
    payload,    \* the components client.Components returned to buildReport
    incs,       \* an incident list handed to incidentTime, summarizeUpdates and sortIncidents
    kpc,        \* "input", then "timed", "summarized", "sorted", "sortedRetry" as the functions are applied
    itimes,     \* incidentTime of every incident of incs (status client)
    itimesRetry,\* incidentTime of every incident of incs (retry-capable run)
    shown,      \* summarizeUpdates of every incident of incs (render.go)
    ranked,     \* what sortIncidents (report.go) returned for incs
    rankedRetry,\* what sortIncidents (retry-capable run) returned for incs
    compIn,     \* a component list handed to filterComponents
    cpc,        \* "input", then "filtered" after filterComponents
    compOut,    \* what filterComponents returned for compIn
    args,       \* os.Args[1:] of main
    mpc,        \* position of main: "parse", "build", "render", "exited"
    exitCode,   \* exit status of the process, -1 while it runs
    stdout,     \* what main wrote to standard output, in order
    stderr,     \* what main wrote to standard error, in order
    rendered,   \* the reports handed to renderReport, in order
    program,    \* the generation of main that runs: "0.3.0" or "0.2.0"; "none" while no main runs
    rawStatus,  \* a status string handed to formatStatus and statusIcon
    tpc,        \* "input", then "formatted" after formatStatus, then "done" after statusIcon
    statusText, \* what formatStatus returned for rawStatus
    icon,       \* what statusIcon returned for rawStatus
    doc,        \* a report handed to renderJSON
    jpc,        \* "input", then "rendered" after renderJSON of render.go, then "done" after renderJSON of the retry-capable run
    jsonOut,    \* the JSON document renderJSON (render.go) wrote for doc
    jsonOutRetry \* the JSON document renderJSON (retry-capable run) wrote for doc

fetchVars == <<opts, stage, pc, attempt, calls, lastErr, received, backoff, expired, runErr>>
filterVars == <<feed, fpc, results, capped>>
reportVars == <<cfg, rpc, r, rerr, requests, payload>>
rankVars == <<incs, kpc, itimes, itimesRetry, shown, ranked, rankedRetry>>
compVars == <<compIn, cpc, compOut>>
mainVars == <<args, mpc, exitCode, stdout, stderr, rendered, program>>
statusVars == <<rawStatus, tpc, statusText, icon>>
renderVars == <<doc, jpc, jsonOut, jsonOutRetry>>

vars == <<fetchVars, filterVars, reportVars, rankVars, compVars, mainVars, statusVars, renderVars>>

(***************************************************************************)
(* Strings are sequences of bytes, text in UTF-8 as in Go.                *)
(***************************************************************************)
\* "resolved"
strResolved == <<114, 101, 115, 111, 108, 118, 101, 100>>
\* "RESOLVED"
strResolvedUpper == <<82, 69, 83, 79, 76, 86, 69, 68>>
\* "monitoring"
strMonitoring == <<109, 111, 110, 105, 116, 111, 114, 105, 110, 103>>
\* "investigating"
strInvestigating == <<105, 110, 118, 101, 115, 116, 105, 103, 97, 116, 105, 110, 103>>
\* "minor"
strMinor == <<109, 105, 110, 111, 114>>
\* "Git"
strGit == <<71, 105, 116>>
\* "api"
strApi == <<97, 112, 105>>
\* "a"
strA == <<97>>
\* "Incident"
strIncident == <<73, 110, 99, 105, 100, 101, 110, 116>>
\* "critical"
strCritical == <<99, 114, 105, 116, 105, 99, 97, 108>>
\* "major"
strMajor == <<109, 97, 106, 111, 114>>
\* "none"
strNone == <<110, 111, 110, 101>>
\* "Visit www.githubstatus.com for more information" (config.go 15, client.go 197)
referenceComponent ==
    <<86, 105, 115, 105, 116, 32, 119, 119, 119, 46, 103, 105, 116, 104, 117,
      98, 115, 116, 97, 116, 117, 115, 46, 99, 111, 109, 32, 102, 111, 114, 32,
      109, 111, 114, 101, 32, 105, 110, 102, 111, 114, 109, 97, 116, 105, 111,
      110>>
\* "VISIT WWW.GITHUBSTATUS.COM FOR MORE INFORMATION"
referenceUpper ==
    <<86, 73, 83, 73, 84, 32, 87, 87, 87, 46, 71, 73, 84, 72, 85, 66, 83, 84,
      65, 84, 85, 83, 46, 67, 79, 77, 32, 70, 79, 82, 32, 77, 79, 82, 69, 32,
      73, 78, 70, 79, 82, 77, 65, 84, 73, 79, 78>>

\* utf8.DecodeRuneInString at byte i of s: the code point and the number of
\* bytes it takes; a byte that starts no well-formed sequence decodes as
\* U+FFFD of width 1 (overlong forms and surrogates are not told apart)
DecodeRune(s, i) ==
    LET c == s[i]
        cont(k) == i + k <= Len(s) /\ s[i + k] >= 128 /\ s[i + k] <= 191
    IN  IF c < 128 THEN [rune |-> c, width |-> 1]
        ELSE IF c >= 194 /\ c <= 223 /\ cont(1)
        THEN [rune |-> (c - 192) * 64 + (s[i + 1] - 128), width |-> 2]
        ELSE IF c >= 224 /\ c <= 239 /\ cont(1) /\ cont(2)
        THEN [rune |-> (c - 224) * 4096 + (s[i + 1] - 128) * 64 + (s[i + 2] - 128), width |-> 3]
        ELSE IF c >= 240 /\ c <= 244 /\ cont(1) /\ cont(2) /\ cont(3)
        THEN [rune |-> (c - 240) * 262144 + (s[i + 1] - 128) * 4096
                    + (s[i + 2] - 128) * 64 + (s[i + 3] - 128), width |-> 4]
        ELSE [rune |-> 65533, width |-> 1]

\* utf8.AppendRune: the bytes of code point cp
EncodeRune(cp) ==
    IF cp < 128 THEN <<cp>>
    ELSE IF cp < 2048 THEN <<192 + (cp \div 64), 128 + (cp % 64)>>
    ELSE IF cp < 65536 THEN <<224 + (cp \div 4096), 128 + ((cp \div 64) % 64), 128 + (cp % 64)>>
    ELSE <<240 + (cp \div 262144), 128 + ((cp \div 4096) % 64), 128 + ((cp \div 64) % 64),
           128 + (cp % 64)>>

\* unicode.ToLower and unicode.ToUpper on the code points below U+0100
\* (ASCII and Latin-1); every other code point of this model has no case
unicodeToLower(cp) ==
    IF cp >= 65 /\ cp <= 90 THEN cp + 32
    ELSE IF cp >= 192 /\ cp <= 222 /\ cp # 215 THEN cp + 32
    ELSE cp

unicodeToUpper(cp) ==
    IF cp >= 97 /\ cp <= 122 THEN cp - 32
    ELSE IF cp >= 224 /\ cp <= 254 /\ cp # 247 THEN cp - 32
    ELSE IF cp = 255 THEN 376
    ELSE IF cp = 181 THEN 924
    ELSE cp

\* strings.Map(unicode.ToLower, s) from byte i on: every code point is
\* mapped and written again, a byte that is no UTF-8 comes out as U+FFFD
RECURSIVE MapToLower(_, _)
MapToLower(s, i) ==
    IF i > Len(s) THEN <<>>
    ELSE EncodeRune(unicodeToLower(DecodeRune(s, i).rune))
            \o MapToLower(s, i + DecodeRune(s, i).width)

\* strings.Map(unicode.ToUpper, s) from byte i on
RECURSIVE MapToUpper(_, _)
MapToUpper(s, i) ==
    IF i > Len(s) THEN <<>>
    ELSE EncodeRune(unicodeToUpper(DecodeRune(s, i).rune))
            \o MapToUpper(s, i + DecodeRune(s, i).width)

\* strings.ToLower: bytewise on ASCII text, strings.Map otherwise
LowerChar(c) == IF c >= 65 /\ c <= 90 THEN c + 32 ELSE c
ToLower(s) ==
    IF \A i \in 1..Len(s) : s[i] < 128 THEN [i \in 1..Len(s) |-> LowerChar(s[i])]
    ELSE MapToLower(s, 1)

\* strings.ToUpper
UpperChar(c) == IF c >= 97 /\ c <= 122 THEN c - 32 ELSE c
ToUpper(s) ==
    IF \A i \in 1..Len(s) : s[i] < 128 THEN [i \in 1..Len(s) |-> UpperChar(s[i])]
    ELSE MapToUpper(s, 1)

\* strings.TrimSpace, on ASCII text
IsSpace(c) == c \in {9, 10, 11, 12, 13, 32}
RECURSIVE TrimLeft(_)
TrimLeft(s) == IF s # <<>> /\ IsSpace(Head(s)) THEN TrimLeft(Tail(s)) ELSE s
RECURSIVE TrimRight(_)
TrimRight(s) ==
    IF s # <<>> /\ IsSpace(s[Len(s)]) THEN TrimRight(SubSeq(s, 1, Len(s) - 1)) ELSE s
TrimSpace(s) == TrimRight(TrimLeft(s))

\* strings.EqualFold, on ASCII text
EqualFold(s, t) == ToLower(s) = ToLower(t)

\* s < t on Go strings: bytewise lexicographic order
RECURSIVE StrLessFrom(_, _, _)
StrLessFrom(s, t, i) ==
    IF i > Len(t) THEN FALSE
    ELSE IF i > Len(s) THEN TRUE
    ELSE IF s[i] # t[i] THEN s[i] < t[i]
    ELSE StrLessFrom(s, t, i + 1)
StrLess(s, t) == StrLessFrom(s, t, 1)

(***************************************************************************)
(* sort.Slice: the result is a permutation of the input in which no       *)
(* element is less than an element before it.  The sort is not stable:    *)
(* elements that compare equal may come out in any order.                 *)
(***************************************************************************)
SlicePerms(n) == {p \in [1..n -> 1..n] : \A i, j \in 1..n : p[i] = p[j] => i = j}

Reorder(s, p) == [i \in 1..Len(s) |-> s[p[i]]]

\* less is the less function as the set of the index pairs <<i, j>> it holds for
SortSlice(s, less) ==
    {Reorder(s, p) : p \in {q \in SlicePerms(Len(s)) :
        \A i, j \in 1..Len(s) : i < j => <<q[j], q[i]>> \notin less}}

IndexPairs(s) == (1..Len(s)) \X (1..Len(s))

\* all sequences over S of length at most n
SeqsUpTo(S, n) == UNION {[1..k -> S] : k \in 0..n}

\* the sequences that take their element i from the set choices[i]
ChoicesOf(choices) ==
    {c \in [1..Len(choices) -> UNION {choices[i] : i \in 1..Len(choices)}] :
        \A i \in 1..Len(choices) : c[i] \in choices[i]}

(***************************************************************************)
(* Components                                                             *)
(***************************************************************************)
\* report.go 52-69, client.go 553-567
LessComponent(a, b) == StrLess(ToLower(a.Name), ToLower(b.Name))
KeepComponent(comp) == ~comp.Group /\ ~EqualFold(comp.Name, referenceComponent)
\* the filter with the sentinel name compared exactly
KeepComponentExactName(comp) == ~comp.Group /\ comp.Name # referenceComponent
filterComponentsExactName(components) ==
    LET out == SelectSeq(components, KeepComponentExactName)
    IN  SortSlice(out, {p \in IndexPairs(out) : LessComponent(out[p[1]], out[p[2]])})

filterComponents(components) ==
    LET out == SelectSeq(components, KeepComponent)
    IN  SortSlice(out, {p \in IndexPairs(out) : LessComponent(out[p[1]], out[p[2]])})

(***************************************************************************)
(* 64-bit two's complement integers (Go's int64, time.Duration) as eight  *)
(* bytes, least significant first.                                        *)
(***************************************************************************)
Int64(n) == [i \in 1..8 |-> IF i <= 4 THEN (n \div (256 ^ (i - 1))) % 256 ELSE 0]

RECURSIVE MulColumn(_, _, _, _)
MulColumn(a, b, k, i) ==
    IF i > k THEN 0 ELSE a[i] * b[k + 1 - i] + MulColumn(a, b, k, i + 1)

RECURSIVE MulCarry(_, _, _)
MulCarry(a, b, k) ==
    IF k = 1 THEN 0
    ELSE (MulColumn(a, b, k - 1, 1) + MulCarry(a, b, k - 1)) \div 256

\* a * b, truncated to 64 bits
Mul64(a, b) == [k \in 1..8 |-> (MulColumn(a, b, k, 1) + MulCarry(a, b, k)) % 256]

\* 1 << s for an int64 left operand: a shift count of 64 or more gives 0
ShiftLeftOne(s) ==
    [i \in 1..8 |-> IF s < 64 /\ s \div 8 = i - 1 THEN 2 ^ (s % 8) ELSE 0]

IsNeg64(a) == a[8] >= 128

RECURSIVE UnsignedLess(_, _, _)
UnsignedLess(a, b, i) ==
    IF i = 0 THEN FALSE
    ELSE IF a[i] # b[i] THEN a[i] < b[i]
    ELSE UnsignedLess(a, b, i - 1)

\* signed a < b
Less64(a, b) ==
    IF IsNeg64(a) # IsNeg64(b) THEN IsNeg64(a) ELSE UnsignedLess(a, b, 8)

\* time.Duration counts nanoseconds: 300 * time.Millisecond, 2 * time.Second
retryBackoffInitial == Int64(300 * 1000000)
retryBackoffMax == Int64(2 * 1000000000)

(***************************************************************************)
(* Errors.  kind "nil" is the nil error; "conn" a transport failure of    *)
(* client.Do that is no timeout; "deadline" an error wrapping             *)
(* context.DeadlineExceeded; "status" a non-200 response; "syntax",       *)
(* "type" and "decode" failures of the JSON decoder.  classifyError and   *)
(* run add "timeout", "invalidjson", "shape" and "nocomponents".          *)
(***************************************************************************)
Err(kind, code) == [kind |-> kind, code |-> code]
Nil == Err("nil", 0)

\* no attempt made yet in this call of fetchJSON
NoAttempt == Err("none", 0)

StatusOK == 200
StatusTooManyRequests == 429
StatusCodes == {200, 400, 404, 429, 500, 503}

\* what one client.Do call and the decoding of its body can end in
Outcomes ==
    {Err("conn", 0), Err("deadline", 0)}
    \cup {Err("status", s) : s \in StatusCodes \ {StatusOK}}
    \cup {Err(k, 0) : k \in {"nil", "syntax", "type", "decode"}}

shouldRetryStatus(status) ==
    IF status = StatusTooManyRequests THEN TRUE
    ELSE status >= 500 /\ status <= 599

classifyError(err) ==
    IF err = Nil THEN Nil
    ELSE IF err.kind = "deadline" THEN Err("timeout", 0)
    ELSE IF err.kind = "syntax" THEN Err("invalidjson", 0)
    ELSE IF err.kind = "type" THEN Err("shape", 0)
    ELSE err

(***************************************************************************)
(* fetchJSON and waitForRetry                                             *)
(***************************************************************************)
\* retries taken as the number of repetitions after the first attempt
AttemptsOffByOne(retries) == IF retries < 1 THEN 1 ELSE retries + 1

\* client.go 440-443
Attempts(retries) == IF retries < 1 THEN 1 ELSE retries

\* client.go 504-507
Backoff(n) ==
    LET b == Mul64(retryBackoffInitial, ShiftLeftOne(n - 1))
    IN  IF Less64(retryBackoffMax, b) THEN retryBackoffMax ELSE b

(***************************************************************************)
(* The retry-capable run.  Its steps are the suspension points of the     *)
(* program: one client.Do call with the handling of its response, one     *)
(* waitForRetry, and the continuation of run after fetchJSON returned.    *)
(* The decoded payloads only reach the renderer; run's control flow       *)
(* depends on them through the emptiness of the filtered components.      *)
(***************************************************************************)
SmallRetries == 3
LargeRetries == 37

\* retries as parseArgs leaves it is at least 1; fetchJSON also takes less
RetryValues == (-1..SmallRetries) \cup {LargeRetries}

outputText == "text"
outputJSON == "json"

Options ==
    [retries : RetryValues, showDetails : BOOLEAN, showResolved : BOOLEAN,
     outputFormat : {outputText, outputJSON}]

ComponentFeeds ==
    {<<>>,
     <<[Name |-> strGit, Status |-> <<>>, Group |-> FALSE]>>,
     <<[Name |-> strGit, Status |-> <<>>, Group |-> FALSE],
       [Name |-> strApi, Status |-> <<>>, Group |-> FALSE]>>,
     <<[Name |-> referenceUpper, Status |-> <<>>, Group |-> FALSE],
       [Name |-> strGit, Status |-> <<>>, Group |-> TRUE]>>}

\* report.go 10-14
EmptyReport == [Components |-> <<>>, Active |-> <<>>, Resolved |-> <<>>]

\* the values the variables of the other programs keep while one is checked
FetchIdle ==
    /\ opts = [retries |-> 1, showDetails |-> FALSE, showResolved |-> FALSE,
               outputFormat |-> outputText]
    /\ stage = "end"
    /\ pc = "idle"
    /\ attempt = 0
    /\ calls = 0
    /\ lastErr = Nil
    /\ received = NoAttempt
    /\ backoff = Int64(0)
    /\ expired = FALSE
    /\ runErr = Nil

FilterIdle ==
    /\ feed = <<>>
    /\ fpc = "idle"
    /\ results = <<>>
    /\ capped = <<>>

ReportIdle ==
    /\ cfg = [showDetails |-> FALSE, showResolved |-> FALSE, output |-> outputText]
    /\ rpc = "idle"
    /\ r = EmptyReport
    /\ rerr = Nil
    /\ requests = <<>>
    /\ payload = <<>>

RankIdle ==
    /\ incs = <<>>
    /\ kpc = "idle"
    /\ itimes = <<>>
    /\ itimesRetry = <<>>
    /\ shown = <<>>
    /\ ranked = <<>>
    /\ rankedRetry = <<>>

CompIdle ==
    /\ compIn = <<>>
    /\ cpc = "idle"
    /\ compOut = <<>>

MainIdle ==
    /\ args = <<>>
    /\ mpc = "idle"
    /\ exitCode = -1
    /\ stdout = <<>>
    /\ stderr = <<>>
    /\ rendered = <<>>
    /\ program = "none"

StatusIdle ==
    /\ rawStatus = <<>>
    /\ tpc = "idle"
    /\ statusText = <<>>
    /\ icon = <<>>

RenderIdle ==
    /\ doc = EmptyReport
    /\ jpc = "idle"
    /\ jsonOut = <<>>
    /\ jsonOutRetry = <<>>

InitFetch ==
    /\ RenderIdle
    /\ StatusIdle
    /\ FilterIdle
    /\ ReportIdle
    /\ RankIdle
    /\ CompIdle
    /\ MainIdle
    /\ opts \in Options
    /\ stage = "components"
    /\ pc = "request"
    /\ attempt = 1
    /\ calls = 0
    /\ lastErr = Nil
    /\ received = NoAttempt
    /\ backoff = Int64(0)
    /\ expired = FALSE
    /\ runErr = Nil

\* fetchJSON without the assignment of line 475: a decoded 200 response
\* leaves lastErr as the attempt before set it
AttemptKeepingLastErr ==
    /\ pc = "request"
    /\ \E out \in Outcomes :
        /\ expired => out.kind = "deadline"
        /\ expired' = (expired \/ out.kind = "deadline")
        /\ calls' = calls + 1
        /\ received' = out
        /\ lastErr' = (IF out = Nil THEN lastErr ELSE out)
        /\ IF lastErr' = Nil \/ attempt = Attempts(opts.retries)
           THEN pc' = "returned" /\ UNCHANGED backoff
           ELSE pc' = "sleep" /\ backoff' = Backoff(attempt)
    /\ UNCHANGED <<opts, stage, attempt, runErr, filterVars, reportVars, rankVars, compVars, mainVars, statusVars, renderVars>>

\* client.go 447-490: one pass of the loop up to the return or the call of
\* waitForRetry.  The return inside the closure (465-467) leaves the closure
\* only, so after any response the loop goes on at line 479.
Attempt ==
    /\ pc = "request"
    /\ \E out \in Outcomes :
        /\ expired => out.kind = "deadline"
        /\ expired' = (expired \/ out.kind = "deadline")
        /\ calls' = calls + 1
        /\ received' = out
        /\ lastErr' = out
        /\ IF lastErr' = Nil \/ attempt = Attempts(opts.retries)
           THEN pc' = "returned" /\ UNCHANGED backoff
           ELSE pc' = "sleep" /\ backoff' = Backoff(attempt)
    /\ UNCHANGED <<opts, stage, attempt, runErr, filterVars, reportVars, rankVars, compVars, mainVars, statusVars, renderVars>>

\* client.go 511-516, 487: the timer fires, the loop goes to the next attempt.
\* With the deadline passed both channels of the select are ready only when
\* the timer was armed with a duration that is not positive.
WaitTimer ==
    /\ pc = "sleep"
    /\ ~expired \/ ~Less64(Int64(0), backoff)
    /\ attempt' = attempt + 1
    /\ pc' = "request"
    /\ UNCHANGED <<opts, stage, calls, lastErr, received, backoff, expired, runErr>>
    /\ UNCHANGED <<filterVars, reportVars, rankVars, compVars, mainVars, statusVars, renderVars>>

\* client.go 512-513, 487-489: the context is done first; fetchJSON returns lastErr
WaitDeadline ==
    /\ pc = "sleep"
    /\ expired' = TRUE
    /\ pc' = "returned"
    /\ UNCHANGED <<opts, stage, attempt, calls, lastErr, received, backoff, runErr>>
    /\ UNCHANGED <<filterVars, reportVars, rankVars, compVars, mainVars, statusVars, renderVars>>

needsIncidentData ==
    opts.showDetails \/ opts.showResolved \/ opts.outputFormat = outputJSON

\* client.go 395-428: the endpoint run fetches after the one at `stage`
\* answered, "end" when it goes on to render
NextStage ==
    IF stage = "components" THEN (IF needsIncidentData THEN "unresolved" ELSE "end")
    ELSE IF stage = "unresolved" THEN (IF opts.showResolved THEN "all" ELSE "end")
    ELSE "end"

Return(err) ==
    /\ stage' = "end"
    /\ pc' = "done"
    /\ runErr' = err
    /\ UNCHANGED <<attempt, calls, lastErr, received, backoff>>

\* client.go 395-428: run after a fetchJSON call returned
RunContinue ==
    /\ pc = "returned"
    /\ \E comps \in ComponentFeeds :
        IF lastErr # Nil THEN Return(classifyError(lastErr))
        ELSE IF stage = "components" /\ filterComponents(comps) = {<<>>}
        THEN Return(Err("nocomponents", 0))
        ELSE IF NextStage = "end" THEN Return(Nil)
        ELSE /\ stage' = NextStage
             /\ pc' = "request"
             /\ attempt' = 1
             /\ calls' = 0
             /\ lastErr' = Nil
             /\ received' = NoAttempt
             /\ UNCHANGED <<backoff, runErr>>
    /\ UNCHANGED <<opts, expired, filterVars, reportVars, rankVars, compVars, mainVars, statusVars, renderVars>>

NextFetch == Attempt \/ WaitTimer \/ WaitDeadline \/ RunContinue

SpecFetch == InitFetch /\ [][NextFetch]_vars

(***************************************************************************)
(* Properties of the retry-capable run                                    *)
(***************************************************************************)
TerminalStatus(err) == err.kind = "status" /\ ~shouldRetryStatus(err.code)

\* C1: a response whose status is neither 200 nor retryable (a 4xx other
\* than 429) is terminal: while it is the last response of the running
\* fetchJSON call there is no backoff wait and no further attempt.
C1_TerminalStatusEndsFetch ==
    TerminalStatus(lastErr) => pc \notin {"sleep", "request"}

\* C2: fetchJSON is at attempt k+1 only if attempt k ended in a connection
\* failure or in a 5xx or 429 response; never after a 200 response whose
\* body failed to decode.
C2_RetryOnlyTransient ==
    (pc = "request" /\ attempt > 1) =>
        \/ lastErr.kind \in {"conn", "deadline"}
        \/ lastErr.kind = "status" /\ shouldRetryStatus(lastErr.code)

RetryableFailure(err) ==
    \/ err.kind \in {"conn", "deadline"}
    \/ err.kind = "status" /\ shouldRetryStatus(err.code)

\* C3: when the deadline of run expired, during a request or during the
\* backoff sleep after a retryable failure, run has failed with the
\* timeout-classified error.
C3_DeadlineGivesTimeout ==
    (pc = "done" /\ expired /\ RetryableFailure(lastErr)) => runErr = Err("timeout", 0)

Max(a, b) == IF a >= b THEN a ELSE b

\* C4: one call of fetchJSON makes at most max(1, retries) HTTP attempts.
C4_AttemptsBounded == calls <= Max(1, opts.retries)

\* C4 witness: a call that used up all of its several attempts
C4_Witness ==
    pc = "returned" /\ opts.retries > 1 /\ calls = opts.retries /\ lastErr # Nil

\* min(300ms * 2^(k-1), 2s) over the integers
ExpectedBackoff(k) ==
    IF k >= 4 THEN Int64(2 * 1000000000) ELSE Int64(300 * 1000000 * (2 ^ (k - 1)))

\* C5: the backoff waited after failed attempt k is min(300ms * 2^(k-1), 2s),
\* never below 300ms and never above 2s.
C5_BackoffWithinBounds ==
    pc = "sleep" =>
        /\ backoff = ExpectedBackoff(attempt)
        /\ ~Less64(backoff, retryBackoffInitial)
        /\ ~Less64(retryBackoffMax, backoff)

\* C28: fetchJSON returns nil exactly when the last attempt it made got a
\* 200 response whose body decoded; after such an attempt the call makes no
\* further attempt and does not wait; in every other case it returns the
\* error of the last attempt it made, which is not nil.
C28_FetchJSONResult ==
    /\ pc = "returned" =>
        /\ (lastErr = Nil) <=> (received = Nil)
        /\ lastErr # Nil => lastErr = received
        /\ received # NoAttempt
    /\ (pc \in {"request", "sleep"} /\ calls > 0) => received # Nil

\* C28 witness: a call that returned nil from an attempt after a failed one
C28_Witness ==
    pc = "returned" /\ calls > 1 /\ received = Nil /\ lastErr = Nil

(***************************************************************************)
(* Incidents.  A raw timestamp of the feed is the empty string, text that *)
(* is no RFC3339 timestamp, or the RFC3339 text of a day; a time.Time is  *)
(* a day number, the zero time.Time lying before every day of the feed.   *)
(***************************************************************************)
EmptyTS == [text |-> "empty", day |-> 0]
MalformedTS == [text |-> "malformed", day |-> 0]
Day(d) == [text |-> "rfc3339", day |-> d]

ZeroTime == 0

\* client.go 154-165
parseTime(raw) ==
    IF raw.text = "empty" THEN [t |-> ZeroTime, ok |-> FALSE]
    ELSE IF raw.text = "rfc3339" THEN [t |-> raw.day, ok |-> TRUE]
    ELSE [t |-> ZeroTime, ok |-> FALSE]

RECURSIVE FirstParseable(_, _)
FirstParseable(updates, i) ==
    IF i > Len(updates) THEN ZeroTime
    ELSE IF parseTime(updates[i].CreatedAt).ok THEN parseTime(updates[i].CreatedAt).t
    ELSE FirstParseable(updates, i + 1)

\* client.go 136-152
incidentTime(inc) ==
    IF parseTime(inc.UpdatedAt).ok THEN parseTime(inc.UpdatedAt).t
    ELSE IF Len(inc.IncidentUpdates) = 0
    THEN (IF parseTime(inc.CreatedAt).ok THEN parseTime(inc.CreatedAt).t ELSE ZeroTime)
    ELSE FirstParseable(inc.IncidentUpdates, 1)

\* config.go 16: 7 * 24 * time.Hour, in days
resolvedLookback == 7

\* client.go 63-80: the loop of RecentResolvedIncidents from element i on
RECURSIVE ResolvedLoop(_, _, _, _, _)
ResolvedLoop(incidents, i, seen, acc, cutoff) ==
    IF i > Len(incidents) THEN acc
    ELSE LET inc == incidents[i] IN
        IF ~EqualFold(inc.Status, strResolved)
        THEN ResolvedLoop(incidents, i + 1, seen, acc, cutoff)
        ELSE IF inc.ID # <<>> /\ inc.ID \in seen
        THEN ResolvedLoop(incidents, i + 1, seen, acc, cutoff)
        ELSE LET seen2 == IF inc.ID # <<>> THEN seen \cup {inc.ID} ELSE seen
                 t == incidentTime(inc)
             IN  IF t # ZeroTime /\ t < cutoff
                 THEN ResolvedLoop(incidents, i + 1, seen2, acc, cutoff)
                 ELSE ResolvedLoop(incidents, i + 1, seen2, Append(acc, inc), cutoff)

\* the loop with the id looked up before the status
RECURSIVE ResolvedLoopDedupFirst(_, _, _, _, _)
ResolvedLoopDedupFirst(incidents, i, seen, acc, cutoff) ==
    IF i > Len(incidents) THEN acc
    ELSE LET inc == incidents[i] IN
        IF inc.ID # <<>> /\ inc.ID \in seen
        THEN ResolvedLoopDedupFirst(incidents, i + 1, seen, acc, cutoff)
        ELSE LET seen2 == IF inc.ID # <<>> THEN seen \cup {inc.ID} ELSE seen
                 t == incidentTime(inc)
             IN  IF ~EqualFold(inc.Status, strResolved) \/ (t # ZeroTime /\ t < cutoff)
                 THEN ResolvedLoopDedupFirst(incidents, i + 1, seen2, acc, cutoff)
                 ELSE ResolvedLoopDedupFirst(incidents, i + 1, seen2, Append(acc, inc), cutoff)

RecentResolvedDedupFirst(incidents, now) ==
    ResolvedLoopDedupFirst(incidents, 1, {}, <<>>, now - resolvedLookback)

\* the loop started at the second element of the list
RecentResolvedFromSecond(incidents, now) ==
    ResolvedLoop(incidents, 2, {}, <<>>, now - resolvedLookback)

\* client.go 59-82
RecentResolvedIncidents(incidents, now) ==
    ResolvedLoop(incidents, 1, {}, <<>>, now - resolvedLookback)

maxResolvedIncidents == 5

\* client.go 698-719 (the retry-capable run)
RECURSIVE FilterLoop(_, _, _, _)
FilterLoop(incidents, i, seen, acc) ==
    IF i > Len(incidents) THEN acc
    ELSE LET inc == incidents[i] IN
        IF ~EqualFold(inc.Status, strResolved)
        THEN FilterLoop(incidents, i + 1, seen, acc)
        ELSE IF inc.ID # <<>> /\ inc.ID \in seen
        THEN FilterLoop(incidents, i + 1, seen, acc)
        ELSE LET seen2 == IF inc.ID # <<>> THEN seen \cup {inc.ID} ELSE seen
                 acc2 == Append(acc, inc)
             IN  IF Len(acc2) >= maxResolvedIncidents THEN acc2
                 ELSE FilterLoop(incidents, i + 1, seen2, acc2)

filterResolved(incidents) == FilterLoop(incidents, 1, {}, <<>>)

(***************************************************************************)
(* The resolved filters applied to bounded incident lists                 *)
(***************************************************************************)
MaxDay == 3
MaxFeed == 2
MaxLongFeed == 6

\* time.Now() at client.go 59: the cutoff is day 2, so that day 1 is older
\* than the lookback window and the days from 2 on lie within it
NowDay == resolvedLookback + 2

Update(ts) == [CreatedAt |-> ts]

TimeProfiles ==
    {[UpdatedAt |-> u, CreatedAt |-> EmptyTS, IncidentUpdates |-> <<>>] :
        u \in {EmptyTS, MalformedTS} \cup {Day(d) : d \in 1..MaxDay}}
    \cup {[UpdatedAt |-> EmptyTS, CreatedAt |-> EmptyTS,
           IncidentUpdates |-> <<Update(Day(1)), Update(Day(MaxDay))>>],
          [UpdatedAt |-> EmptyTS, CreatedAt |-> Day(1),
           IncidentUpdates |-> <<Update(EmptyTS)>>]}

Incident(id, status, times) ==
    [ID |-> id, Name |-> strIncident, Status |-> status, Impact |-> strMinor,
     CreatedAt |-> times.CreatedAt, UpdatedAt |-> times.UpdatedAt,
     IncidentUpdates |-> times.IncidentUpdates]

FeedIncidents ==
    {Incident(id, st, tp) : id \in {<<>>, strA},
        st \in {strResolved, strResolvedUpper, strMonitoring}, tp \in TimeProfiles}

\* incidents without timestamps, for lists longer than maxResolvedIncidents
PlainIncidents ==
    {Incident(id, st, [UpdatedAt |-> EmptyTS, CreatedAt |-> EmptyTS, IncidentUpdates |-> <<>>]) :
        id \in {<<>>, strA}, st \in {strResolved, strMonitoring}}

FilterFeeds == SeqsUpTo(FeedIncidents, MaxFeed) \cup SeqsUpTo(PlainIncidents, MaxLongFeed)

InitResolved ==
    /\ RenderIdle
    /\ StatusIdle
    /\ FetchIdle
    /\ ReportIdle
    /\ RankIdle
    /\ CompIdle
    /\ MainIdle
    /\ feed \in FilterFeeds
    /\ fpc = "input"
    /\ results = <<>>
    /\ capped = <<>>

CallRecentResolved ==
    /\ fpc = "input"
    /\ results' = RecentResolvedIncidents(feed, NowDay)
    /\ fpc' = "recent"
    /\ UNCHANGED <<feed, capped, fetchVars, reportVars, rankVars, compVars, mainVars, statusVars, renderVars>>

CallFilterResolved ==
    /\ fpc = "recent"
    /\ capped' = filterResolved(feed)
    /\ fpc' = "capped"
    /\ UNCHANGED <<feed, results, fetchVars, reportVars, rankVars, compVars, mainVars, statusVars, renderVars>>

NextResolved == CallRecentResolved \/ CallFilterResolved

SpecResolved == InitResolved /\ [][NextResolved]_vars

(***************************************************************************)
(* Properties of the resolved filters                                     *)
(***************************************************************************)
IsResolved(inc) == EqualFold(inc.Status, strResolved)

Cutoff == NowDay - resolvedLookback

Contains(s, x) == \E k \in 1..Len(s) : s[k] = x

RECURSIVE NewestParseable(_, _, _)
NewestParseable(updates, i, best) ==
    IF i > Len(updates) THEN best
    ELSE LET p == parseTime(updates[i].CreatedAt) IN
         NewestParseable(updates, i + 1, IF p.ok /\ p.t > best.t THEN p ELSE best)

\* the best-known timestamp as the specification defines it: updatedAt if
\* it parses, else the newest parseable update timestamp, else createdAt,
\* else the oldest moment
BestKnownTime(inc) ==
    LET newest == NewestParseable(inc.IncidentUpdates, 1, [t |-> ZeroTime, ok |-> FALSE])
    IN  IF parseTime(inc.UpdatedAt).ok THEN parseTime(inc.UpdatedAt).t
        ELSE IF newest.ok THEN newest.t
        ELSE IF parseTime(inc.CreatedAt).ok THEN parseTime(inc.CreatedAt).t
        ELSE ZeroTime

FirstOccurrence(s, i) == s[i].ID = <<>> \/ \A j \in 1..(i - 1) : s[j].ID # s[i].ID

\* C7: RecentResolvedIncidents includes every resolved feed incident that
\* is the first occurrence of its id and whose best-known timestamp is at
\* or after now minus the lookback window.
C7_IncludesAllWithinWindow ==
    fpc # "input" =>
        \A i \in 1..Len(feed) :
            (IsResolved(feed[i]) /\ FirstOccurrence(feed, i)
                /\ BestKnownTime(feed[i]) >= Cutoff)
            => Contains(results, feed[i])

\* the window test of client.go 75
DroppedByWindow(inc) == incidentTime(inc) # ZeroTime /\ incidentTime(inc) < Cutoff

KeptByWindow(inc) == ~DroppedByWindow(inc)

RECURSIVE DedupByID(_, _)
DedupByID(s, seen) ==
    IF s = <<>> THEN <<>>
    ELSE IF Head(s).ID # <<>> /\ Head(s).ID \in seen THEN DedupByID(Tail(s), seen)
    ELSE <<Head(s)>> \o DedupByID(Tail(s), IF Head(s).ID # <<>> THEN seen \cup {Head(s).ID} ELSE seen)

\* the first resolved incident of the list that carries the id of s[i]
FirstResolvedWithID(s, i) ==
    /\ IsResolved(s[i])
    /\ \A j \in 1..(i - 1) : ~(IsResolved(s[j]) /\ s[j].ID = s[i].ID)

C10_FilterIdempotent ==
    /\ fpc # "input" => RecentResolvedIncidents(results, NowDay) = results
    /\ fpc = "capped" => filterResolved(capped) = capped

\* C10 witness: both filters ran on a list in which the id dedup dropped a
\* later resolved incident and something was kept
C10_Witness ==
    /\ fpc = "capped"
    /\ results # <<>>
    /\ capped # <<>>
    /\ \E i, j \in 1..Len(feed) :
        i < j /\ feed[i].ID = strA /\ feed[j].ID = strA
            /\ IsResolved(feed[i]) /\ IsResolved(feed[j])

(***************************************************************************)
(* buildReport over the status client.  Its steps are its three requests, *)
(* each with everything buildReport does on the answer.                   *)
(***************************************************************************)
\* report.go 91-104
impactOrder(impact) ==
    LET s == ToLower(TrimSpace(impact))
    IN  IF s = strCritical THEN 0
        ELSE IF s = strMajor THEN 1
        ELSE IF s = strMinor THEN 2
        ELSE IF s = strNone THEN 3
        ELSE 4

\* report.go 75-86: the less function of sortIncidents
LessIncident(a, b) ==
    IF incidentTime(a) # incidentTime(b) THEN incidentTime(a) > incidentTime(b)
    ELSE IF impactOrder(a.Impact) - impactOrder(b.Impact) # 0
    THEN impactOrder(a.Impact) - impactOrder(b.Impact) < 0
    ELSE StrLess(ToLower(a.Name), ToLower(b.Name))

\* report.go 71-89
sortIncidents(incidents) ==
    SortSlice(incidents,
              {p \in IndexPairs(incidents) : LessIncident(incidents[p[1]], incidents[p[2]])})

Configs == [showDetails : BOOLEAN, showResolved : BOOLEAN, output : {outputText, outputJSON}]

\* report.go 30-31
includeActive == cfg.showDetails \/ cfg.output = outputJSON
includeResolved == cfg.showResolved \/ cfg.output = outputJSON

\* what statusClient.get fails with (client.go 85-103)
GetErrors == {Err("conn", 0), Err("deadline", 0), Err("status", 503), Err("decode", 0)}

\* the payload of the unresolved endpoint
UnresolvedIncidents ==
    {Incident(id, strInvestigating,
              [UpdatedAt |-> Day(d), CreatedAt |-> EmptyTS, IncidentUpdates |-> <<>>]) :
        id \in {<<>>, strA}, d \in {1, MaxDay}}

\* the payload of the incidents endpoint
ReportIncidents ==
    {Incident(id, st, [UpdatedAt |-> u, CreatedAt |-> EmptyTS, IncidentUpdates |-> <<>>]) :
        id \in {<<>>, strA}, st \in {strResolved, strMonitoring},
        u \in {EmptyTS, Day(1), Day(MaxDay)}}

InitReport ==
    /\ RenderIdle
    /\ StatusIdle
    /\ FetchIdle
    /\ FilterIdle
    /\ RankIdle
    /\ CompIdle
    /\ MainIdle
    /\ cfg \in Configs
    /\ rpc = "components"
    /\ r = EmptyReport
    /\ rerr = Nil
    /\ requests = <<>>
    /\ payload = <<>>

\* the error recorded and the requests going on
FailAndGoOn(op, e) ==
    /\ r' = EmptyReport
    /\ rerr' = Err(op, e.code)
    /\ rpc' = "active"

\* the error recorded and the same request sent again
FailAndRetry(op, e) ==
    /\ r' = EmptyReport
    /\ rerr' = Err(op, e.code)
    /\ rpc' = IF Len(requests) < 3 THEN rpc ELSE "done"

\* the error returned together with the report built so far
FailWithPartialReport(op, e) ==
    /\ r' = r
    /\ rerr' = Err(op, e.code)
    /\ rpc' = "done"

\* buildReport returns report{} and the wrapped error
Fail(op, e) ==
    /\ r' = EmptyReport
    /\ rerr' = Err(op, e.code)
    /\ rpc' = "done"

\* report.go 17-32, client.go 37-43
BuildComponents ==
    /\ rpc = "components"
    /\ requests' = Append(requests, "components")
    /\ \/ /\ \E e \in GetErrors : Fail("fetch components", e)
          /\ payload' = <<>>
       \/ \E comps \in ComponentFeeds : \E filtered \in filterComponents(comps) :
            /\ payload' = comps
            /\ IF Len(filtered) = 0
               THEN Fail("github status returned no components", Nil)
               ELSE /\ r' = [EmptyReport EXCEPT !.Components = filtered]
                    /\ rerr' = Nil
                    /\ rpc' = IF includeActive THEN "active"
                              ELSE IF includeResolved THEN "resolved" ELSE "done"
    /\ UNCHANGED <<cfg, fetchVars, filterVars, rankVars, compVars, mainVars, statusVars, renderVars>>

\* report.go 33-40, client.go 45-51
BuildActive ==
    /\ rpc = "active"
    /\ requests' = Append(requests, "unresolved")
    /\ \/ \E e \in GetErrors : Fail("fetch active incidents", e)
       \/ \E active \in SeqsUpTo(UnresolvedIncidents, MaxFeed) :
          \E sorted \in sortIncidents(active) :
            /\ r' = [r EXCEPT !.Active = sorted]
            /\ rerr' = Nil
            /\ rpc' = IF includeResolved THEN "resolved" ELSE "done"
    /\ UNCHANGED <<cfg, payload, fetchVars, filterVars, rankVars, compVars, mainVars, statusVars, renderVars>>

\* report.go 41-49, client.go 53-83
BuildResolved ==
    /\ rpc = "resolved"
    /\ requests' = Append(requests, "incidents")
    /\ \/ \E e \in GetErrors : Fail("fetch resolved incidents", e)
       \/ \E incidents \in SeqsUpTo(ReportIncidents, MaxFeed) :
          \E sorted \in sortIncidents(RecentResolvedIncidents(incidents, NowDay)) :
            /\ r' = [r EXCEPT !.Resolved = sorted]
            /\ rerr' = Nil
            /\ rpc' = "done"
    /\ UNCHANGED <<cfg, payload, fetchVars, filterVars, rankVars, compVars, mainVars, statusVars, renderVars>>

NextReport == BuildComponents \/ BuildActive \/ BuildResolved

SpecReport == InitReport /\ [][NextReport]_vars

(***************************************************************************)
(* Properties of buildReport                                              *)
(***************************************************************************)
\* C6: every incident of the Resolved list of a report has the status
\* resolved, ignoring case, and a best-known timestamp that is not older
\* than now minus the lookback window.
C6_ResolvedWithinWindow ==
    \A k \in 1..Len(r.Resolved) :
        IsResolved(r.Resolved[k]) /\ BestKnownTime(r.Resolved[k]) >= Cutoff

NoDuplicateIDs(s) ==
    \A i, j \in 1..Len(s) : (i # j /\ s[i].ID # <<>>) => s[i].ID # s[j].ID

\* C9: neither the Active nor the Resolved list of a report holds two
\* incidents with the same non-empty id.
C9_NoDuplicateIDs == NoDuplicateIDs(r.Active) /\ NoDuplicateIDs(r.Resolved)

(***************************************************************************)
(* incidentTime, summarizeUpdates and sortIncidents applied to bounded    *)
(* incident lists                                                         *)
(***************************************************************************)
MaxUpdates == 4
MaxRank == 2

\* client.go 634-638: the less function of sortIncidentUpdates; parseTime
\* gives the zero time for a timestamp that does not parse
LessUpdate(a, b) == parseTime(a.CreatedAt).t > parseTime(b.CreatedAt).t

\* client.go 631-640 (the retry-capable run)
sortIncidentUpdates(updates) ==
    SortSlice(updates,
              {p \in IndexPairs(updates) : LessUpdate(updates[p[1]], updates[p[2]])})

\* client.go 680-696 (the retry-capable run): the times incidentTime can
\* return, one for every outcome of the sort of the updates
incidentTimeRetry(inc) ==
    IF parseTime(inc.UpdatedAt).ok THEN {parseTime(inc.UpdatedAt).t}
    ELSE IF Len(inc.IncidentUpdates) = 0
    THEN {IF parseTime(inc.CreatedAt).ok THEN parseTime(inc.CreatedAt).t ELSE ZeroTime}
    ELSE {FirstParseable(s, 1) : s \in sortIncidentUpdates(inc.IncidentUpdates)}

\* client.go 646-660 (the retry-capable run): the less function of
\* sortIncidents, ta and tb being what incidentTime returned for a and b
LessIncidentRetry(a, b, ta, tb) ==
    IF impactOrder(a.Impact) # impactOrder(b.Impact)
    THEN impactOrder(a.Impact) < impactOrder(b.Impact)
    ELSE IF ta # tb THEN ta > tb
    ELSE StrLess(ToLower(a.Name), ToLower(b.Name))

\* client.go 642-663 (the retry-capable run): the lists sortIncidents can
\* return
sortIncidentsRetry(incidents) ==
    UNION {SortSlice(incidents,
                     {p \in IndexPairs(incidents) :
                        LessIncidentRetry(incidents[p[1]], incidents[p[2]], t[p[1]], t[p[2]])}) :
           t \in ChoicesOf([i \in 1..Len(incidents) |-> incidentTimeRetry(incidents[i])])}

\* render.go 13
maxIncidentUpdates == 3

\* render.go 74-79
summarizeUpdates(updates) ==
    IF Len(updates) <= maxIncidentUpdates THEN updates
    ELSE SubSeq(updates, 1, maxIncidentUpdates)

\* " MAJOR "
strMajorPadded == <<32, 77, 65, 74, 79, 82, 32>>

UpdateStamps == {EmptyTS, Day(1), Day(MaxDay)}

\* single incidents with every list of up to MaxUpdates updates
RichIncidents ==
    {Incident(<<>>, strInvestigating,
              [UpdatedAt |-> u, CreatedAt |-> c,
               IncidentUpdates |-> [i \in 1..Len(stamps) |-> Update(stamps[i])]]) :
        u \in {MalformedTS, Day(2)}, c \in {EmptyTS, Day(1)},
        stamps \in SeqsUpTo(UpdateStamps, MaxUpdates)}

RankProfiles ==
    {[UpdatedAt |-> Day(1), CreatedAt |-> EmptyTS, IncidentUpdates |-> <<>>],
     [UpdatedAt |-> Day(2), CreatedAt |-> EmptyTS, IncidentUpdates |-> <<>>],
     [UpdatedAt |-> EmptyTS, CreatedAt |-> EmptyTS,
      IncidentUpdates |-> <<Update(Day(1)), Update(Day(MaxDay))>>],
     [UpdatedAt |-> EmptyTS, CreatedAt |-> EmptyTS, IncidentUpdates |-> <<>>]}

\* incidents that differ in time, impact and name
RankIncidents ==
    {[Incident(<<>>, strInvestigating, tp) EXCEPT !.Impact = impact, !.Name = name] :
        tp \in RankProfiles, impact \in {strCritical, strMajorPadded, strMinor, <<>>},
        name \in {strApi, strGit}}

RankFeeds == {<<inc>> : inc \in RichIncidents} \cup SeqsUpTo(RankIncidents, MaxRank)

InitRank ==
    /\ RenderIdle
    /\ StatusIdle
    /\ FetchIdle
    /\ FilterIdle
    /\ ReportIdle
    /\ CompIdle
    /\ MainIdle
    /\ incs \in RankFeeds
    /\ kpc = "input"
    /\ itimes = <<>>
    /\ itimesRetry = <<>>
    /\ shown = <<>>
    /\ ranked = <<>>
    /\ rankedRetry = <<>>

\* client.go 136-152 and 680-696 on every incident of the list
CallIncidentTime ==
    /\ kpc = "input"
    /\ itimes' = [i \in 1..Len(incs) |-> incidentTime(incs[i])]
    /\ itimesRetry' \in {s \in [1..Len(incs) -> 0..(MaxDay + 1)] :
                          \A i \in 1..Len(incs) : s[i] \in incidentTimeRetry(incs[i])}
    /\ kpc' = "timed"
    /\ UNCHANGED <<incs, shown, ranked, rankedRetry, fetchVars, filterVars, reportVars, compVars, mainVars, statusVars, renderVars>>

\* render.go 62 and 164: the updates shown for every incident of the list
CallSummarizeUpdates ==
    /\ kpc = "timed"
    /\ shown' = [i \in 1..Len(incs) |-> summarizeUpdates(incs[i].IncidentUpdates)]
    /\ kpc' = "summarized"
    /\ UNCHANGED <<incs, itimes, itimesRetry, ranked, rankedRetry, fetchVars, filterVars, reportVars, compVars, mainVars, statusVars, renderVars>>

\* report.go 71-89
CallSortIncidents ==
    /\ kpc = "summarized"
    /\ ranked' \in sortIncidents(incs)
    /\ kpc' = "sorted"
    /\ UNCHANGED <<incs, itimes, itimesRetry, shown, rankedRetry, fetchVars, filterVars, reportVars, compVars, mainVars, statusVars, renderVars>>

\* client.go 642-663 (the retry-capable run)
CallSortIncidentsRetry ==
    /\ kpc = "sorted"
    /\ rankedRetry' \in sortIncidentsRetry(incs)
    /\ kpc' = "sortedRetry"
    /\ UNCHANGED <<incs, itimes, itimesRetry, shown, ranked, fetchVars, filterVars, reportVars, compVars, mainVars, statusVars, renderVars>>

NextRank == CallIncidentTime \/ CallSummarizeUpdates \/ CallSortIncidents \/ CallSortIncidentsRetry

SpecRank == InitRank /\ [][NextRank]_vars

(***************************************************************************)
(* Properties of incidentTime, summarizeUpdates and sortIncidents         *)
(***************************************************************************)
\* the impact rank: critical 0, major 1, minor 2, none 3, anything else 4,
\* the impact trimmed and compared ignoring case
ImpactRank(impact) ==
    IF EqualFold(TrimSpace(impact), strCritical) THEN 0
    ELSE IF EqualFold(TrimSpace(impact), strMajor) THEN 1
    ELSE IF EqualFold(TrimSpace(impact), strMinor) THEN 2
    ELSE IF EqualFold(TrimSpace(impact), strNone) THEN 3
    ELSE 4

\* a must come before b: newer best-known timestamp, then lower impact
\* rank, then lower name ignoring case
RanksBefore(a, b) ==
    IF BestKnownTime(a) # BestKnownTime(b) THEN BestKnownTime(a) > BestKnownTime(b)
    ELSE IF ImpactRank(a.Impact) # ImpactRank(b.Impact)
    THEN ImpactRank(a.Impact) < ImpactRank(b.Impact)
    ELSE StrLess(ToLower(a.Name), ToLower(b.Name))

\* C11: the list sortIncidents returns is ordered by best-known timestamp
\* descending, among equal timestamps by impact rank ascending, among
\* equal timestamp and impact by name ascending ignoring case.
C11_SortedByTimeImpactName ==
    kpc = "sorted" =>
        \A i, j \in 1..Len(ranked) : i < j => ~RanksBefore(ranked[j], ranked[i])

ParseableUpdates(inc) ==
    {k \in 1..Len(inc.IncidentUpdates) : parseTime(inc.IncidentUpdates[k].CreatedAt).ok}

\* C12: for an incident whose updatedAt does not parse and that has several
\* updates with parseable timestamps, incidentTime is the newest of those
\* update timestamps, in whatever order the feed lists the updates.
C12_NewestUpdateTime ==
    kpc # "input" =>
        \A i \in 1..Len(incs) :
            (~parseTime(incs[i].UpdatedAt).ok /\ Cardinality(ParseableUpdates(incs[i])) >= 2)
            => /\ \E k \in ParseableUpdates(incs[i]) :
                    itimes[i] = parseTime(incs[i].IncidentUpdates[k].CreatedAt).t
               /\ \A k \in ParseableUpdates(incs[i]) :
                    itimes[i] >= parseTime(incs[i].IncidentUpdates[k].CreatedAt).t

\* what createdAt gives: its time if it parses, else the zero time
CreatedOrZero(inc) ==
    IF parseTime(inc.CreatedAt).ok THEN parseTime(inc.CreatedAt).t ELSE ZeroTime

\* C13: for an incident whose updatedAt does not parse and none of whose
\* updates has a parseable timestamp, incidentTime (of the status client and
\* of the retry-capable run) is the parsed createdAt if createdAt parses,
\* with an empty and with a non-empty update list, and the zero time only
\* when createdAt does not parse either.
C13_CreatedAtFallback ==
    kpc # "input" =>
        \A i \in 1..Len(incs) :
            (~parseTime(incs[i].UpdatedAt).ok /\ ParseableUpdates(incs[i]) = {})
            => /\ itimes[i] = CreatedOrZero(incs[i])
               /\ itimesRetry[i] = CreatedOrZero(incs[i])

\* the time an update is ordered by: an unparseable timestamp is the oldest
UpdateTime(upd) ==
    IF parseTime(upd.CreatedAt).ok THEN parseTime(upd.CreatedAt).t ELSE ZeroTime

Min(a, b) == IF a <= b THEN a ELSE b

\* the orderings of updates that are most-recent-first
MostRecentFirst(updates) ==
    {Reorder(updates, p) : p \in {q \in SlicePerms(Len(updates)) :
        \A i, j \in 1..Len(updates) :
            i < j => UpdateTime(updates[q[i]]) >= UpdateTime(updates[q[j]])}}

\* C14: the updates shown for an incident are at most 3 and are the most
\* recent ones by parseable timestamp, most recent first, in whatever order
\* the feed lists the updates.
C14_ShownUpdatesMostRecent ==
    kpc \in {"summarized", "sorted"} =>
        \A i \in 1..Len(incs) :
            /\ Len(shown[i]) <= 3
            /\ \E s \in MostRecentFirst(incs[i].IncidentUpdates) :
                shown[i] = SubSeq(s, 1, Min(3, Len(s)))

(***************************************************************************)
(* filterComponents applied to bounded component lists                    *)
\* C27: the list sortIncidents of the retry-capable run returns has the
\* incident with the newer best-known timestamp first, whatever the impact;
\* among incidents of equal timestamp the one of lower impact rank is first.
C27_RetryRanksByTimeFirst ==
    kpc = "sortedRetry" =>
        \A i, j \in 1..Len(rankedRetry) : i < j =>
            /\ BestKnownTime(rankedRetry[i]) >= BestKnownTime(rankedRetry[j])
            /\ BestKnownTime(rankedRetry[i]) = BestKnownTime(rankedRetry[j]) =>
                ImpactRank(rankedRetry[i].Impact) <= ImpactRank(rankedRetry[j].Impact)

\* the list sortIncidents of the retry-capable run returns is ordered by
\* impact rank first, best-known timestamp descending second
RetryRanksByImpactFirst ==
    kpc = "sortedRetry" =>
        \A i, j \in 1..Len(rankedRetry) : i < j =>
            /\ ImpactRank(rankedRetry[i].Impact) <= ImpactRank(rankedRetry[j].Impact)
            /\ ImpactRank(rankedRetry[i].Impact) = ImpactRank(rankedRetry[j].Impact) =>
                BestKnownTime(rankedRetry[i]) >= BestKnownTime(rankedRetry[j])

(***************************************************************************)
MaxComponents == 3

\* the components of the feeds: plain, group and sentinel entries
ComponentSet ==
    {[Name |-> strGit, Status |-> <<>>, Group |-> FALSE],
     [Name |-> strGit, Status |-> <<>>, Group |-> TRUE],
     [Name |-> strApi, Status |-> <<>>, Group |-> FALSE],
     [Name |-> referenceComponent, Status |-> <<>>, Group |-> FALSE],
     [Name |-> referenceUpper, Status |-> <<>>, Group |-> FALSE],
     [Name |-> referenceUpper, Status |-> <<>>, Group |-> TRUE]}

\* a feed with a group, a sentinel and two plain components (the fixture
\* of TestBuildReport)
FixtureComponents ==
    <<[Name |-> strGit, Status |-> <<>>, Group |-> TRUE],
      [Name |-> strGit, Status |-> <<>>, Group |-> FALSE],
      [Name |-> referenceUpper, Status |-> <<>>, Group |-> FALSE],
      [Name |-> strApi, Status |-> <<>>, Group |-> FALSE]>>

\* the component lists handed to filterComponents
ComponentPayloads == SeqsUpTo(ComponentSet, MaxComponents) \cup {FixtureComponents}

InitComponents ==
    /\ RenderIdle
    /\ StatusIdle
    /\ FetchIdle
    /\ FilterIdle
    /\ ReportIdle
    /\ RankIdle
    /\ MainIdle
    /\ compIn \in ComponentPayloads
    /\ cpc = "input"
    /\ compOut = <<>>

\* report.go 52-69
CallFilterComponents ==
    /\ cpc = "input"
    /\ compOut' \in filterComponents(compIn)
    /\ cpc' = "filtered"
    /\ UNCHANGED <<compIn, fetchVars, filterVars, reportVars, rankVars, mainVars, statusVars, renderVars>>

NextComponents == CallFilterComponents

SpecComponents == InitComponents /\ [][NextComponents]_vars

\* a component the report is to show: no group container and not the
\* sentinel reference entry, its name compared ignoring case
ShownComponent(comp) == ~comp.Group /\ ToLower(comp.Name) # ToLower(referenceComponent)

Count(s, x) == Cardinality({k \in 1..Len(s) : s[k] = x})

\* C15: the components filterComponents returns are exactly the input
\* components that are no group containers and whose name differs from the
\* sentinel name ignoring case, each as often as in the input, ordered by
\* lower-cased name ascending.
C15_FilterComponentsExact ==
    cpc = "filtered" =>
        /\ Len(compOut) = Len(SelectSeq(compIn, ShownComponent))
        /\ \A c \in ComponentSet :
            Count(compOut, c) = Count(SelectSeq(compIn, ShownComponent), c)
        /\ \A i, j \in 1..Len(compOut) :
            i < j => ~StrLess(ToLower(compOut[j].Name), ToLower(compOut[i].Name))

\* C15 witness: from a feed with a group, a sentinel in another case and two
\* plain components the two plain ones came out, reordered by name
C15_Witness ==
    /\ cpc = "filtered"
    /\ compIn = FixtureComponents
    /\ compOut = <<compIn[4], compIn[2]>>

(***************************************************************************)
(* Properties of buildReport: components and requests                     *)
(***************************************************************************)
\* the components endpoint answered and buildReport filtered its payload
ComponentsFiltered == rpc # "components" /\ rerr.kind # "fetch components"

\* C16: if the filtering leaves no component (the feed is empty or holds
\* only group and sentinel entries), buildReport has failed with an error
\* and the empty report, and the components request is the only one sent.
C16_NoComponentsFails ==
    (ComponentsFiltered /\ SelectSeq(payload, ShownComponent) = <<>>) =>
        /\ rpc = "done"
        /\ rerr # Nil
        /\ r = EmptyReport
        /\ requests = <<"components">>

\* C16 witness: structured output was asked for and the feed held only a
\* sentinel and a group entry
C16_Witness ==
    /\ rpc = "done"
    /\ cfg.output = outputJSON
    /\ Len(payload) = 2
    /\ rerr = Err("github status returned no components", 0)

\* C17: a buildReport that succeeded with details, resolved or structured
\* output requested has fetched the unresolved incidents; a text-mode
\* configuration with only resolved set is such a configuration.
C17_UnresolvedFetched ==
    (rpc = "done" /\ rerr = Nil
        /\ (cfg.showDetails \/ cfg.showResolved \/ cfg.output = outputJSON))
    => Contains(requests, "unresolved")

\* buildReport fetches the full incident list exactly when resolved or
\* structured output is requested
BuildReportFetchesFullList ==
    (rpc = "done" /\ rerr = Nil) =>
        (Contains(requests, "incidents") <=> (cfg.showResolved \/ cfg.output = outputJSON))

\* C18: the full incident list is fetched whenever resolved or structured
\* output is requested and not otherwise: when the retry-capable run is
\* through with the unresolved incidents, it goes on to the full list
\* exactly if resolved or structured output is requested.
C18_FullListFetched ==
    [][(stage = "unresolved" /\ stage' # stage /\ runErr' = Nil) =>
        (stage' = "all" <=> (opts.showResolved \/ opts.outputFormat = outputJSON))]_vars

\* the place of an endpoint in the order components, unresolved incidents,
\* full incidents
EndpointOrder(endpoint) ==
    IF endpoint = "components" THEN 1
    ELSE IF endpoint = "unresolved" THEN 2
    ELSE 3

\* C29: buildReport sends its requests one at a time, in the order
\* components, unresolved incidents, full incidents: every step that sends
\* a request sends exactly one, to an endpoint that comes after every
\* endpoint already asked (so no endpoint is asked twice), and only when
\* everything before it succeeded; once a request has failed no request
\* follows.
C29_RequestsSequential ==
    [][requests' # requests =>
        /\ rerr = Nil
        /\ rpc # "done"
        /\ \E endpoint \in {"components", "unresolved", "incidents"} :
            /\ requests' = Append(requests, endpoint)
            /\ \A k \in 1..Len(requests) :
                EndpointOrder(requests[k]) < EndpointOrder(endpoint)
        /\ rerr' # Nil => rpc' = "done"]_vars

\* C29 witness: all three endpoints were asked, each once, and all answered
C29_Witness ==
    /\ rpc = "done"
    /\ rerr = Nil
    /\ requests = <<"components", "unresolved", "incidents">>

(***************************************************************************)
(* Command-line arguments.  An argument is a string; os.Args[1:] is a     *)
(* sequence of arguments.                                                 *)
(***************************************************************************)
\* "--details"
argDetails == <<45, 45, 100, 101, 116, 97, 105, 108, 115>>
\* "--resolved"
argResolved == <<45, 45, 114, 101, 115, 111, 108, 118, 101, 100>>
\* "--json"
argJson == <<45, 45, 106, 115, 111, 110>>
\* "--version"
argVersion == <<45, 45, 118, 101, 114, 115, 105, 111, 110>>
\* "--help"
argHelp == <<45, 45, 104, 101, 108, 112>>
\* "--timeout"
argTimeout == <<45, 45, 116, 105, 109, 101, 111, 117, 116>>
\* "--timeout=0s"
argTimeoutZero == <<45, 45, 116, 105, 109, 101, 111, 117, 116, 61, 48, 115>>
\* "--bogus"
argBogus == <<45, 45, 98, 111, 103, 117, 115>>
\* "bogus"
wordBogus == <<98, 111, 103, 117, 115>>
\* "15s"
textFifteenSeconds == <<49, 53, 115>>
\* "-5s"
textMinusFiveSeconds == <<45, 53, 115>>
\* "details"
nameDetails == <<100, 101, 116, 97, 105, 108, 115>>
\* "resolved"
nameResolved == <<114, 101, 115, 111, 108, 118, 101, 100>>
\* "version"
nameVersion == <<118, 101, 114, 115, 105, 111, 110>>
\* "timeout"
nameTimeout == <<116, 105, 109, 101, 111, 117, 116>>
\* "json"
nameJson == <<106, 115, 111, 110>>
\* "help"
nameHelp == <<104, 101, 108, 112>>
\* "h"
nameH == <<104>>
\* "-h"
argShortHelp == <<45, 104>>
\* "--retries"
argRetries == <<45, 45, 114, 101, 116, 114, 105, 101, 115>>
\* "--retries=0"
argRetriesZero == <<45, 45, 114, 101, 116, 114, 105, 101, 115, 61, 48>>
\* "3"
textThree == <<51>>
\* "--timeout="
timeoutPrefix == <<45, 45, 116, 105, 109, 101, 111, 117, 116, 61>>
\* "--retries="
retriesPrefix == <<45, 45, 114, 101, 116, 114, 105, 101, 115, 61>>

\* the index of the first c in s, 0 if there is none
RECURSIVE IndexFrom(_, _, _)
IndexFrom(s, c, i) ==
    IF i > Len(s) THEN 0 ELSE IF s[i] = c THEN i ELSE IndexFrom(s, c, i + 1)

IsDigit(c) == c >= 48 /\ c <= 57

\* the number a string of decimal digits denotes
RECURSIVE DigitsValue(_)
DigitsValue(s) ==
    IF s = <<>> THEN 0 ELSE DigitsValue(SubSeq(s, 1, Len(s) - 1)) * 10 + (s[Len(s)] - 48)

\* time.ParseDuration on texts of the form [+-]digits unit with the units s
\* and m, and on "0": the duration in seconds
ParseDuration(s) ==
    LET signed == s # <<>> /\ s[1] \in {43, 45}
        rest == IF signed THEN Tail(s) ELSE s
        digits == IF rest = <<>> THEN <<>> ELSE SubSeq(rest, 1, Len(rest) - 1)
        unit == IF rest = <<>> THEN 0 ELSE rest[Len(rest)]
        sign == IF signed /\ s[1] = 45 THEN -1 ELSE 1
    IN  IF rest = <<48>> THEN [d |-> 0, ok |-> TRUE]
        ELSE IF digits # <<>> /\ (\A k \in 1..Len(digits) : IsDigit(digits[k]))
                /\ unit \in {115, 109}
        THEN [d |-> sign * DigitsValue(digits) * (IF unit = 109 THEN 60 ELSE 1), ok |-> TRUE]
        ELSE [d |-> 0, ok |-> FALSE]

\* strconv.ParseBool
ParseBool(s) ==
    IF s \in {<<49>>, <<116>>, <<84>>, <<116, 114, 117, 101>>, <<84, 82, 85, 69>>,
              <<84, 114, 117, 101>>}
    THEN [b |-> TRUE, ok |-> TRUE]
    ELSE IF s \in {<<48>>, <<102>>, <<70>>, <<102, 97, 108, 115, 101>>,
                   <<70, 65, 76, 83, 69>>, <<70, 97, 108, 115, 101>>}
    THEN [b |-> FALSE, ok |-> TRUE]
    ELSE [b |-> FALSE, ok |-> FALSE]

\* config.go 11: 10 * time.Second, in seconds
defaultTimeout == 10

\* config.go 28-31 and the flag defaults of 35-40; jsonOutput is the value
\* of the json flag
DefaultFlags ==
    [showDetails |-> FALSE, showResolved |-> FALSE, showVersion |-> FALSE,
     jsonOutput |-> FALSE, timeout |-> defaultTimeout]

BoolFlags == {nameDetails, nameResolved, nameVersion, nameJson}

SetBool(flags, name, b) ==
    IF name = nameDetails THEN [flags EXCEPT !.showDetails = b]
    ELSE IF name = nameResolved THEN [flags EXCEPT !.showResolved = b]
    ELSE IF name = nameVersion THEN [flags EXCEPT !.showVersion = b]
    ELSE [flags EXCEPT !.jsonOutput = b]

\* flag.FlagSet.Parse with the flags of config.go 35-40: parsing stops
\* without an error before the first argument that is no flag and after
\* "--"; err is "nil", "help" (flag.ErrHelp) or "flag" (any other error)
RECURSIVE FlagSetParse(_, _, _)
FlagSetParse(arguments, i, flags) ==
    IF i > Len(arguments) THEN [flags |-> flags, err |-> "nil"]
    ELSE LET s == arguments[i] IN
        IF Len(s) < 2 \/ s[1] # 45 THEN [flags |-> flags, err |-> "nil"]
        ELSE LET minuses == IF s[2] = 45 THEN 2 ELSE 1
                 rest == SubSeq(s, minuses + 1, Len(s))
             IN  IF minuses = 2 /\ Len(s) = 2 THEN [flags |-> flags, err |-> "nil"]
                 ELSE IF rest = <<>> \/ rest[1] = 45 \/ rest[1] = 61
                 THEN [flags |-> flags, err |-> "flag"]
                 ELSE LET eq == IndexFrom(rest, 61, 2)
                          name == IF eq > 0 THEN SubSeq(rest, 1, eq - 1) ELSE rest
                          value == IF eq > 0 THEN SubSeq(rest, eq + 1, Len(rest)) ELSE <<>>
                      IN  IF name \in BoolFlags
                          THEN IF eq = 0
                               THEN FlagSetParse(arguments, i + 1, SetBool(flags, name, TRUE))
                               ELSE IF ParseBool(value).ok
                               THEN FlagSetParse(arguments, i + 1,
                                                 SetBool(flags, name, ParseBool(value).b))
                               ELSE [flags |-> flags, err |-> "flag"]
                          ELSE IF name = nameTimeout
                          THEN IF eq = 0 /\ i + 1 > Len(arguments)
                               THEN [flags |-> flags, err |-> "flag"]
                               ELSE LET text == IF eq > 0 THEN value ELSE arguments[i + 1]
                                        next == IF eq > 0 THEN i + 1 ELSE i + 2
                                    IN  IF ParseDuration(text).ok
                                        THEN FlagSetParse(arguments, next,
                                                 [flags EXCEPT !.timeout = ParseDuration(text).d])
                                        ELSE [flags |-> flags, err |-> "flag"]
                          ELSE IF name \in {nameHelp, nameH}
                          THEN [flags |-> flags, err |-> "help"]
                          ELSE [flags |-> flags, err |-> "flag"]

\* config.go 27-60
parseFlags(arguments) ==
    LET parsed == FlagSetParse(arguments, 1, DefaultFlags)
        flags == parsed.flags
        config == [showDetails |-> flags.showDetails, showResolved |-> flags.showResolved,
                   showVersion |-> flags.showVersion,
                   output |-> IF flags.jsonOutput THEN outputJSON ELSE outputText,
                   timeout |-> flags.timeout]
    IN  IF parsed.err # "nil" THEN [cfg |-> [config EXCEPT !.output = outputText], err |-> parsed.err]
        ELSE IF flags.timeout <= 0 THEN [cfg |-> [config EXCEPT !.output = outputText], err |-> "timeout"]
        ELSE [cfg |-> config, err |-> "nil"]

\* strings.HasPrefix
HasPrefix(s, prefix) == Len(s) >= Len(prefix) /\ SubSeq(s, 1, Len(prefix)) = prefix

\* strconv.Atoi on texts of at most nine digits
Atoi(s) ==
    LET signed == s # <<>> /\ s[1] \in {43, 45}
        digits == IF signed THEN Tail(s) ELSE s
    IN  IF digits # <<>> /\ (\A k \in 1..Len(digits) : IsDigit(digits[k]))
        THEN [n |-> (IF signed /\ s[1] = 45 THEN -1 ELSE 1) * DigitsValue(digits), ok |-> TRUE]
        ELSE [n |-> 0, ok |-> FALSE]

\* client.go 189
defaultRetries == 1

\* client.go 294-298
DefaultOptions ==
    [showDetails |-> FALSE, showResolved |-> FALSE, timeout |-> defaultTimeout,
     retries |-> defaultRetries, outputFormat |-> outputText, printVersion |-> FALSE]

\* client.go 361-371: err is "nil" or "error"
setTimeout(o, raw) ==
    IF ~ParseDuration(raw).ok THEN [opts |-> o, err |-> "error"]
    ELSE IF ParseDuration(raw).d <= 0 THEN [opts |-> o, err |-> "error"]
    ELSE [opts |-> [o EXCEPT !.timeout = ParseDuration(raw).d], err |-> "nil"]

\* client.go 373-383
setRetries(o, raw) ==
    IF ~Atoi(raw).ok THEN [opts |-> o, err |-> "error"]
    ELSE IF Atoi(raw).n <= 0 THEN [opts |-> o, err |-> "error"]
    ELSE [opts |-> [o EXCEPT !.retries = Atoi(raw).n], err |-> "nil"]

\* client.go 304-348: the loop of parseArgs from argument i on; err is
\* "nil", "help" (errHelp) or "error"
RECURSIVE ParseArgsLoop(_, _, _)
ParseArgsLoop(arguments, i, o) ==
    IF i > Len(arguments) THEN [opts |-> o, err |-> "nil"]
    ELSE LET arg == arguments[i] IN
        IF arg = argDetails \/ EqualFold(arg, nameDetails)
        THEN ParseArgsLoop(arguments, i + 1, [o EXCEPT !.showDetails = TRUE])
        ELSE IF arg = argResolved
        THEN ParseArgsLoop(arguments, i + 1, [o EXCEPT !.showResolved = TRUE])
        ELSE IF arg = argJson
        THEN ParseArgsLoop(arguments, i + 1, [o EXCEPT !.outputFormat = outputJSON])
        ELSE IF arg = argVersion
        THEN ParseArgsLoop(arguments, i + 1, [o EXCEPT !.printVersion = TRUE])
        ELSE IF arg = argShortHelp \/ arg = argHelp
        THEN [opts |-> o, err |-> "help"]
        ELSE IF arg = argTimeout
        THEN IF i + 1 > Len(arguments) THEN [opts |-> o, err |-> "error"]
             ELSE IF setTimeout(o, arguments[i + 1]).err # "nil"
             THEN setTimeout(o, arguments[i + 1])
             ELSE ParseArgsLoop(arguments, i + 2, setTimeout(o, arguments[i + 1]).opts)
        ELSE IF HasPrefix(arg, timeoutPrefix)
        THEN LET value == SubSeq(arg, Len(timeoutPrefix) + 1, Len(arg))
             IN  IF setTimeout(o, value).err # "nil" THEN setTimeout(o, value)
                 ELSE ParseArgsLoop(arguments, i + 1, setTimeout(o, value).opts)
        ELSE IF arg = argRetries
        THEN IF i + 1 > Len(arguments) THEN [opts |-> o, err |-> "error"]
             ELSE IF setRetries(o, arguments[i + 1]).err # "nil"
             THEN setRetries(o, arguments[i + 1])
             ELSE ParseArgsLoop(arguments, i + 2, setRetries(o, arguments[i + 1]).opts)
        ELSE IF HasPrefix(arg, retriesPrefix)
        THEN LET value == SubSeq(arg, Len(retriesPrefix) + 1, Len(arg))
             IN  IF setRetries(o, value).err # "nil" THEN setRetries(o, value)
                 ELSE ParseArgsLoop(arguments, i + 1, setRetries(o, value).opts)
        ELSE [opts |-> o, err |-> "error"]

\* client.go 293-349 (the retry-capable run)
parseArgs(arguments) == ParseArgsLoop(arguments, 1, DefaultOptions)

(***************************************************************************)
(* main over parseFlags, buildReport and renderReport (client.go          *)
(* 1135-1165).  Its steps are the parsing with the exits that follow it,  *)
(* the three requests of buildReport, and the handling of what            *)
(* buildReport returned.                                                  *)
(***************************************************************************)
MaxArgs == 1

Arguments ==
    {argDetails, argResolved, argJson, argVersion, argHelp, argTimeout, argTimeoutZero,
     argBogus, wordBogus, textFifteenSeconds, textMinusFiveSeconds,
     nameDetails, argRetries, argRetriesZero, textThree}

\* command lines with a flag that takes the next argument as its value,
\* with arguments after a word that is no flag, and with several options
LongArgLists ==
    {<<argTimeout, textFifteenSeconds>>,
     <<argTimeout, textMinusFiveSeconds>>,
     <<argTimeout, argJson>>,
     <<argTimeout, textFifteenSeconds, argJson>>,
     <<wordBogus, argTimeoutZero>>,
     <<argDetails, wordBogus>>,
     <<argResolved, argBogus>>,
     <<argDetails, argResolved>>,
     <<argDetails, argResolved, argJson>>,
     <<argVersion, argJson>>,
     <<argHelp, argBogus>>,
     <<argRetries, textThree>>,
     <<argRetries, textFifteenSeconds>>}

ArgLists == SeqsUpTo(Arguments, MaxArgs) \cup LongArgLists

InitMain ==
    /\ RenderIdle
    /\ StatusIdle
    /\ FetchIdle
    /\ FilterIdle
    /\ ReportIdle
    /\ RankIdle
    /\ CompIdle
    /\ args \in ArgLists
    /\ mpc = "parse"
    /\ exitCode = -1
    /\ stdout = <<>>
    /\ stderr = <<>>
    /\ rendered = <<>>
    /\ program = "0.3.0"

Exit(code) == mpc' = "exited" /\ exitCode' = code

\* main without the test of cfg.showVersion: it goes on to buildReport
\* whenever parseFlags returned no error
MainParseWithoutVersionExit ==
    /\ program = "0.3.0"
    /\ mpc = "parse"
    /\ LET parsed == parseFlags(args) IN
        IF parsed.err = "help"
        THEN /\ stderr' = <<"usage">>
             /\ Exit(0)
             /\ UNCHANGED <<stdout, reportVars>>
        ELSE IF parsed.err # "nil"
        THEN /\ stderr' = IF parsed.err = "flag" THEN <<"flag error", "usage", "error">>
                          ELSE <<"error">>
             /\ Exit(2)
             /\ UNCHANGED <<stdout, reportVars>>
        ELSE /\ cfg' = [showDetails |-> parsed.cfg.showDetails,
                        showResolved |-> parsed.cfg.showResolved,
                        output |-> parsed.cfg.output]
             /\ rpc' = "components"
             /\ mpc' = "build"
             /\ UNCHANGED <<exitCode, stdout, stderr, r, rerr, requests, payload>>
    /\ UNCHANGED <<args, rendered, program, fetchVars, filterVars, rankVars, compVars, statusVars, renderVars>>

\* client.go 1136-1153.  With flag.ContinueOnError the flag set itself
\* writes the usage (after its error message, if it failed) to standard
\* error before Parse returns.
MainParse ==
    /\ program = "0.3.0"
    /\ mpc = "parse"
    /\ LET parsed == parseFlags(args) IN
        IF parsed.err = "help"
        THEN /\ stderr' = <<"usage">>
             /\ Exit(0)
             /\ UNCHANGED <<stdout, reportVars>>
        ELSE IF parsed.err # "nil"
        THEN /\ stderr' = IF parsed.err = "flag" THEN <<"flag error", "usage", "error">>
                          ELSE <<"error">>
             /\ Exit(2)
             /\ UNCHANGED <<stdout, reportVars>>
        ELSE IF parsed.cfg.showVersion
        THEN /\ stdout' = <<[kind |-> "version", report |-> EmptyReport]>>
             /\ Exit(0)
             /\ UNCHANGED <<stderr, reportVars>>
        ELSE /\ cfg' = [showDetails |-> parsed.cfg.showDetails,
                        showResolved |-> parsed.cfg.showResolved,
                        output |-> parsed.cfg.output]
             /\ rpc' = "components"
             /\ mpc' = "build"
             /\ UNCHANGED <<exitCode, stdout, stderr, r, rerr, requests, payload>>
    /\ UNCHANGED <<args, rendered, program, fetchVars, filterVars, rankVars, compVars, statusVars, renderVars>>

\* client.go 1155-1164, render.go 15-23: the encoder of renderJSON can fail
\* on the write to standard output, renderText returns no error
MainFinish ==
    /\ program = "0.3.0"
    /\ mpc = "build"
    /\ rpc = "done"
    /\ IF rerr # Nil
       THEN /\ stderr' = Append(stderr, "error")
            /\ Exit(1)
            /\ UNCHANGED <<stdout, rendered>>
       ELSE /\ rendered' = Append(rendered, r)
            /\ \/ /\ stdout' = Append(stdout, [kind |-> "report", report |-> r])
                  /\ Exit(0)
                  /\ UNCHANGED stderr
               \/ /\ cfg.output = outputJSON
                  /\ stderr' = Append(stderr, "error")
                  /\ Exit(1)
                  /\ UNCHANGED stdout
    /\ UNCHANGED <<args, program, reportVars, fetchVars, filterVars, rankVars, compVars, statusVars, renderVars>>

NextMain == MainParse \/ BuildComponents \/ BuildActive \/ BuildResolved \/ MainFinish

SpecMain == InitMain /\ [][NextMain]_vars

(***************************************************************************)
(* main of the retry-capable run (client.go 268-289) over parseArgs and   *)
(* run.  Its steps are the parsing with the exits that follow it, the     *)
(* steps of run, and the handling of what run returned.  The report run   *)
(* renders is not carried by this model: EmptyReport stands for it in     *)
(* the record of what was written.                                        *)
(***************************************************************************)
InitMainRetry ==
    /\ RenderIdle
    /\ StatusIdle
    /\ FetchIdle
    /\ FilterIdle
    /\ ReportIdle
    /\ RankIdle
    /\ CompIdle
    /\ args \in ArgLists
    /\ mpc = "parse"
    /\ exitCode = -1
    /\ stdout = <<>>
    /\ stderr = <<>>
    /\ rendered = <<>>
    /\ program = "0.2.0"

\* client.go 269-283 and the entry of run, 385-395
MainRetryParse ==
    /\ program = "0.2.0"
    /\ mpc = "parse"
    /\ LET parsed == parseArgs(args) IN
        IF parsed.err = "help"
        THEN /\ stdout' = <<[kind |-> "usage", report |-> EmptyReport]>>
             /\ Exit(0)
             /\ UNCHANGED <<stderr, fetchVars>>
        ELSE IF parsed.err # "nil"
        THEN /\ stderr' = <<"error", "usage">>
             /\ Exit(1)
             /\ UNCHANGED <<stdout, fetchVars>>
        ELSE IF parsed.opts.printVersion
        THEN /\ stdout' = <<[kind |-> "version", report |-> EmptyReport]>>
             /\ Exit(0)
             /\ UNCHANGED <<stderr, fetchVars>>
        ELSE /\ opts' = [retries |-> parsed.opts.retries,
                         showDetails |-> parsed.opts.showDetails,
                         showResolved |-> parsed.opts.showResolved,
                         outputFormat |-> parsed.opts.outputFormat]
             /\ stage' = "components"
             /\ pc' = "request"
             /\ attempt' = 1
             /\ mpc' = "run"
             /\ UNCHANGED <<calls, lastErr, received, backoff, expired, runErr, exitCode, stdout, stderr>>
    /\ UNCHANGED <<args, rendered, program, filterVars, reportVars, rankVars, compVars, statusVars, renderVars>>

\* client.go 421-428 and 285-288: run renders and returns; renderJSON
\* returns the error of its encoder, renderText returns nothing
MainRetryFinish ==
    /\ program = "0.2.0"
    /\ mpc = "run"
    /\ pc = "done"
    /\ IF runErr # Nil
       THEN /\ stderr' = Append(stderr, "error")
            /\ Exit(1)
            /\ UNCHANGED stdout
       ELSE \/ /\ stdout' = Append(stdout, [kind |-> "report", report |-> EmptyReport])
               /\ Exit(0)
               /\ UNCHANGED stderr
            \/ /\ opts.outputFormat = outputJSON
               /\ stderr' = Append(stderr, "error")
               /\ Exit(1)
               /\ UNCHANGED stdout
    /\ UNCHANGED <<args, rendered, program, fetchVars, filterVars, reportVars, rankVars, compVars, statusVars, renderVars>>

NextMainRetry == MainRetryParse \/ Attempt \/ WaitTimer \/ WaitDeadline \/ RunContinue \/ MainRetryFinish

\* both generations of main
InitMains == InitMain \/ InitMainRetry

NextMains == NextMain \/ NextMainRetry

SpecMains == InitMains /\ [][NextMains]_vars

(***************************************************************************)
(* Properties of main                                                     *)
(***************************************************************************)
FetchFailed ==
    rerr.kind \in {"fetch components", "fetch active incidents", "fetch resolved incidents"}

\* C19: if a fetch that the configuration requires failed, buildReport
\* returned an error with the empty report, main handed no report to the
\* renderer, nothing was written to standard output and the process, once
\* it exited, exited with a non-zero status.
C19_NoPartialReport ==
    FetchFailed =>
        /\ r = EmptyReport
        /\ rendered = <<>>
        /\ stdout = <<>>
        /\ mpc = "exited" => exitCode > 0

\* C19 witness: structured output, the components and the unresolved
\* incidents were fetched and the request for the full list failed
C19_Witness ==
    /\ mpc = "exited"
    /\ exitCode = 1
    /\ requests = <<"components", "unresolved", "incidents">>
    /\ rerr.kind = "fetch resolved incidents"

\* the parser returned no error and the version flag is set in what it returned
VersionRequested ==
    IF program = "0.3.0"
    THEN parseFlags(args).err = "nil" /\ parseFlags(args).cfg.showVersion
    ELSE program = "0.2.0" /\ parseArgs(args).err = "nil" /\ parseArgs(args).opts.printVersion

\* C21: when the version flag is set and parsing succeeded, main (of both
\* generations) never enters buildReport or run, no client is used and no
\* request is sent, and once it has ended it has written the version, and
\* nothing else, to standard output and exited with status 0.
C21_VersionShortCircuits ==
    VersionRequested =>
        /\ mpc \in {"parse", "exited"}
        /\ rpc = "idle" /\ requests = <<>>
        /\ pc = "idle" /\ calls = 0
        /\ mpc = "exited" =>
            /\ stdout = <<[kind |-> "version", report |-> EmptyReport]>>
            /\ stderr = <<>>
            /\ exitCode = 0

\* C21 witness: the version flag together with the flag for structured
\* output, which on its own makes main fetch all three endpoints
C21_Witness ==
    /\ args = <<argVersion, argJson>>
    /\ program = "0.3.0"
    /\ mpc = "exited"
    /\ stdout = <<[kind |-> "version", report |-> EmptyReport]>>

\* the error the parser of the running generation returned for args
ParseErr == IF program = "0.3.0" THEN parseFlags(args).err ELSE parseArgs(args).err

\* the report build (buildReport, or the fetches of run) or the rendering failed
RuntimeFailed ==
    \/ program = "0.3.0" /\ rerr # Nil
    \/ program = "0.2.0" /\ runErr # Nil
    \/ stdout = <<>>

\* the exit status the outcome of a finished main calls for: 2 for an
\* argument-parse failure, 0 for a help request or a version display, 1 for
\* a runtime failure, 0 for a report
ExpectedExit ==
    IF ParseErr \notin {"nil", "help"} THEN 2
    ELSE IF ParseErr = "help" \/ VersionRequested THEN 0
    ELSE IF RuntimeFailed THEN 1
    ELSE 0

\* C22: a process that has ended has exit status 2 if the parsing of its
\* arguments failed, 0 after a help request, a version display or a
\* successful report, and 1 after a failed report build or a failed render.
C22_ExitCodes ==
    mpc = "exited" => exitCode = ExpectedExit

\* main of 0.3.0 on its own ends with the exit status its outcome calls for
ExitCodesOfStatusClientMain ==
    (program = "0.3.0" /\ mpc = "exited") => exitCode = ExpectedExit

\* a command line of recognised options with well-formed values, from
\* argument i on: details, resolved, structured output, version, a timeout
\* greater than zero and, where the program has retries, a retry count
\* greater than zero; a help request ends the command line
RECURSIVE AcceptableArgs(_, _, _)
AcceptableArgs(arguments, i, withRetries) ==
    IF i > Len(arguments) THEN TRUE
    ELSE LET arg == arguments[i] IN
        IF arg \in {argDetails, argResolved, argJson, argVersion}
        THEN AcceptableArgs(arguments, i + 1, withRetries)
        ELSE IF withRetries /\ ToLower(arg) = nameDetails
        THEN AcceptableArgs(arguments, i + 1, withRetries)
        ELSE IF arg \in {argHelp, argShortHelp} THEN TRUE
        ELSE IF arg = argTimeout
        THEN /\ i + 1 <= Len(arguments)
             /\ ParseDuration(arguments[i + 1]).ok
             /\ ParseDuration(arguments[i + 1]).d > 0
             /\ AcceptableArgs(arguments, i + 2, withRetries)
        ELSE IF HasPrefix(arg, timeoutPrefix)
        THEN /\ ParseDuration(SubSeq(arg, Len(timeoutPrefix) + 1, Len(arg))).ok
             /\ ParseDuration(SubSeq(arg, Len(timeoutPrefix) + 1, Len(arg))).d > 0
             /\ AcceptableArgs(arguments, i + 1, withRetries)
        ELSE IF withRetries /\ arg = argRetries
        THEN /\ i + 1 <= Len(arguments)
             /\ Atoi(arguments[i + 1]).ok
             /\ Atoi(arguments[i + 1]).n > 0
             /\ AcceptableArgs(arguments, i + 2, withRetries)
        ELSE IF withRetries /\ HasPrefix(arg, retriesPrefix)
        THEN /\ Atoi(SubSeq(arg, Len(retriesPrefix) + 1, Len(arg))).ok
             /\ Atoi(SubSeq(arg, Len(retriesPrefix) + 1, Len(arg))).n > 0
             /\ AcceptableArgs(arguments, i + 1, withRetries)
        ELSE FALSE

\* C20: for a command line with an unknown argument, a missing or malformed
\* value or a timeout that is zero or negative, the parser returns an
\* error: main issues no request, does not go on to buildReport and, once
\* it exited, exited with a non-zero status.
C20_ParseFailureBeforeNetwork ==
    ~AcceptableArgs(args, 1, FALSE) =>
        /\ requests = <<>>
        /\ mpc # "build"
        /\ mpc = "exited" => exitCode > 0

\* parseArgs of the retry-capable run returns an error for every command
\* line with an unknown argument, a missing or malformed value, a timeout
\* or a retry count that is zero or negative
ParseArgsRejectsFailures ==
    ~AcceptableArgs(args, 1, TRUE) => parseArgs(args).err = "error"

\* parseFlags and parseArgs accept every command line of recognised options
ParsersAcceptRecognised ==
    /\ AcceptableArgs(args, 1, FALSE) => parseFlags(args).err \in {"nil", "help"}
    /\ AcceptableArgs(args, 1, TRUE) => parseArgs(args).err \in {"nil", "help"}

(***************************************************************************)
(* Status texts and icons (render.go 176-204)                             *)
(***************************************************************************)
\* "major_outage"
strMajorOutage == <<109, 97, 106, 111, 114, 95, 111, 117, 116, 97, 103, 101>>
\* "Major Outage"
titleMajorOutage == <<77, 97, 106, 111, 114, 32, 79, 117, 116, 97, 103, 101>>
\* "partial-system outage"
strPartialSystemOutage == <<112, 97, 114, 116, 105, 97, 108, 45, 115, 121, 115, 116, 101, 109, 32, 111, 117, 116, 97, 103, 101>>
\* "Partial System Outage"
titlePartialSystemOutage == <<80, 97, 114, 116, 105, 97, 108, 32, 83, 121, 115, 116, 101, 109, 32, 79, 117, 116, 97, 103, 101>>
\* "operational"
strOperational == <<111, 112, 101, 114, 97, 116, 105, 111, 110, 97, 108>>
\* " OPERATIONAL "
strOperationalPadded == <<32, 79, 80, 69, 82, 65, 84, 73, 79, 78, 65, 76, 32>>
\* "completed"
strCompleted == <<99, 111, 109, 112, 108, 101, 116, 101, 100>>
\* "outage"
strOutage == <<111, 117, 116, 97, 103, 101>>
\* "MAJOR_OUTAGE"
strMajorOutageUpper == <<77, 65, 74, 79, 82, 95, 79, 85, 84, 65, 71, 69>>
\* "e-acute t e-acute, in UTF-8"
strEte == <<195, 169, 116, 195, 169>>
\* "white circle, U+26AA U+FE0F (render.go 179)"
iconNeutral == <<226, 154, 170, 239, 184, 143>>
\* "green circle, U+1F7E2 (render.go 181)"
iconGreen == <<240, 159, 159, 162>>
\* "red circle, U+1F534 (render.go 183)"
iconRed == <<240, 159, 148, 180>>
\* "yellow circle, U+1F7E1 (render.go 185)"
iconYellow == <<240, 159, 159, 161>>

\* unicode.IsSpace
unicodeIsSpace(cp) ==
    \/ cp \in {9, 10, 11, 12, 13, 32, 133, 160, 5760, 8232, 8233, 8239, 8287, 12288}
    \/ cp >= 8192 /\ cp <= 8202

\* render.go 193-195: the function formatStatus hands to strings.FieldsFunc
IsFieldSeparator(cp) == cp = 95 \/ cp = 45 \/ unicodeIsSpace(cp)

\* strings.FieldsFunc from byte i on: start is the byte at which the field
\* that is being read began, 0 between fields
RECURSIVE FieldsFrom(_, _, _, _)
FieldsFrom(s, i, start, acc) ==
    IF i > Len(s)
    THEN (IF start > 0 THEN Append(acc, SubSeq(s, start, Len(s))) ELSE acc)
    ELSE IF IsFieldSeparator(DecodeRune(s, i).rune)
    THEN FieldsFrom(s, i + DecodeRune(s, i).width, 0,
                    IF start > 0 THEN Append(acc, SubSeq(s, start, i - 1)) ELSE acc)
    ELSE FieldsFrom(s, i + DecodeRune(s, i).width, IF start > 0 THEN start ELSE i, acc)

FieldsFunc(s) == FieldsFrom(s, 1, 0, <<>>)

\* strings.Join with the separator " "
RECURSIVE Join(_, _)
Join(fields, i) ==
    IF i > Len(fields) THEN <<>>
    ELSE IF i = Len(fields) THEN fields[i]
    ELSE fields[i] \o <<32>> \o Join(fields, i + 1)

\* render.go 196-202: lower[:1] is the first byte of the field, not its
\* first character
TitleField(field) ==
    IF field = <<>> THEN field
    ELSE LET lower == ToLower(field)
         IN  ToUpper(SubSeq(lower, 1, 1)) \o SubSeq(lower, 2, Len(lower))

\* render.go 189-204
formatStatus(status) ==
    IF status = <<>> THEN <<>>
    ELSE LET fields == FieldsFunc(status)
         IN  Join([i \in 1..Len(fields) |-> TitleField(fields[i])], 1)

\* statusIcon that compares the status as it came
statusIconUntrimmed(status) ==
    LET s == ToLower(status)
    IN  IF s = <<>> THEN iconNeutral
        ELSE IF s \in {strOperational, strResolved, strCompleted} THEN iconGreen
        ELSE IF s \in {strMajorOutage, strCritical, strOutage} THEN iconRed
        ELSE iconYellow

\* render.go 176-187
statusIcon(status) ==
    LET s == ToLower(TrimSpace(status))
    IN  IF s = <<>> THEN iconNeutral
        ELSE IF s \in {strOperational, strResolved, strCompleted} THEN iconGreen
        ELSE IF s \in {strMajorOutage, strCritical, strOutage} THEN iconRed
        ELSE iconYellow

(***************************************************************************)
(* formatStatus and statusIcon on bounded status strings                  *)
(***************************************************************************)
MaxText == 4

\* the characters of the generated status strings: a, B, underscore,
\* hyphen, space and e-acute (two bytes in UTF-8)
StatusChars == {<<97>>, <<66>>, <<95>>, <<45>>, <<32>>, <<195, 169>>}

RECURSIVE Concat(_, _)
Concat(parts, i) == IF i > Len(parts) THEN <<>> ELSE parts[i] \o Concat(parts, i + 1)

StatusStrings ==
    {Concat(chars, 1) : chars \in SeqsUpTo(StatusChars, MaxText)}
    \cup {strMajorOutage, strPartialSystemOutage, strOperational, strOperationalPadded,
          strResolved, strResolvedUpper, strCompleted, strOutage, strCritical,
          strMajorOutageUpper, strInvestigating, strEte}

InitStatus ==
    /\ RenderIdle
    /\ FetchIdle
    /\ FilterIdle
    /\ ReportIdle
    /\ RankIdle
    /\ CompIdle
    /\ MainIdle
    /\ rawStatus \in StatusStrings
    /\ tpc = "input"
    /\ statusText = <<>>
    /\ icon = <<>>

\* render.go 189-204
CallFormatStatus ==
    /\ tpc = "input"
    /\ statusText' = formatStatus(rawStatus)
    /\ tpc' = "formatted"
    /\ UNCHANGED <<rawStatus, icon, fetchVars, filterVars, reportVars, rankVars, compVars, mainVars, renderVars>>

\* render.go 176-187
CallStatusIcon ==
    /\ tpc = "formatted"
    /\ icon' = statusIcon(rawStatus)
    /\ tpc' = "done"
    /\ UNCHANGED <<rawStatus, statusText, fetchVars, filterVars, reportVars, rankVars, compVars, mainVars, renderVars>>

NextStatus == CallFormatStatus \/ CallStatusIcon

SpecStatus == InitStatus /\ [][NextStatus]_vars

(***************************************************************************)
(* Properties of formatStatus and statusIcon                              *)
(***************************************************************************)
\* the characters (code points) of a text in UTF-8, from byte i on
RECURSIVE Characters(_, _)
Characters(s, i) ==
    IF i > Len(s) THEN <<>>
    ELSE <<DecodeRune(s, i).rune>> \o Characters(s, i + DecodeRune(s, i).width)

\* the UTF-8 text of a sequence of characters, from character i on
RECURSIVE TextOf(_, _)
TextOf(chars, i) ==
    IF i > Len(chars) THEN <<>> ELSE EncodeRune(chars[i]) \o TextOf(chars, i + 1)

\* the tokens of a sequence of characters: the maximal runs of characters
\* that are no underscore, hyphen or white space, as pairs <<first, last>>
TokenSpans(chars) ==
    {p \in (1..Len(chars)) \X (1..Len(chars)) :
        /\ p[1] <= p[2]
        /\ \A k \in p[1]..p[2] : ~IsFieldSeparator(chars[k])
        /\ p[1] = 1 \/ IsFieldSeparator(chars[p[1] - 1])
        /\ p[2] = Len(chars) \/ IsFieldSeparator(chars[p[2] + 1])}

\* a token with its first letter in upper case and the rest in lower case
TitleToken(chars, p) ==
    [k \in 1..(p[2] - p[1] + 1) |->
        IF k = 1 THEN unicodeToUpper(chars[p[1]]) ELSE unicodeToLower(chars[p[1] + k - 1])]

\* the tokens that begin at character i or later, in title case, joined
\* with single spaces
RECURSIVE TitleFrom(_, _)
TitleFrom(chars, i) ==
    LET later == {p \in TokenSpans(chars) : p[1] >= i}
    IN  IF later = {} THEN <<>>
        ELSE LET p == CHOOSE q \in later : \A o \in later : q[1] <= o[1]
                 rest == TitleFrom(chars, p[2] + 1)
             IN  TitleToken(chars, p) \o (IF rest = <<>> THEN <<>> ELSE <<32>> \o rest)

TitleCase(s) == TextOf(TitleFrom(Characters(s, 1), 1), 1)

\* C25: formatStatus returns its input split on underscores, hyphens and
\* white space, every token with its first letter in upper case and the
\* rest in lower case, the tokens joined with single spaces; "" gives "",
\* "major_outage" gives "Major Outage" and "partial-system outage" gives
\* "Partial System Outage".
C25_FormatStatusTitleCase ==
    tpc \in {"formatted", "done"} =>
        /\ statusText = TitleCase(rawStatus)
        /\ rawStatus = <<>> => statusText = <<>>
        /\ rawStatus = strMajorOutage => statusText = titleMajorOutage
        /\ rawStatus = strPartialSystemOutage => statusText = titlePartialSystemOutage

\* every token begins with an ASCII character
TokensBeginASCII(s) ==
    \A p \in TokenSpans(Characters(s, 1)) : Characters(s, 1)[p[1]] < 128

\* formatStatus is the title case of every status whose tokens begin with
\* an ASCII character
FormatStatusOnASCIIInitials ==
    (tpc \in {"formatted", "done"} /\ TokensBeginASCII(rawStatus)) =>
        /\ statusText = TitleCase(rawStatus)
        /\ rawStatus = <<>> => statusText = <<>>
        /\ rawStatus = strMajorOutage => statusText = titleMajorOutage
        /\ rawStatus = strPartialSystemOutage => statusText = titlePartialSystemOutage

\* the status trimmed, compared ignoring case
StatusIs(s, names) == \E n \in names : EqualFold(TrimSpace(s), n)

\* C26: statusIcon returns the neutral icon for a status that is empty when
\* trimmed, the green icon for operational, resolved and completed, the red
\* icon for major_outage, outage and critical, and the yellow icon for every
\* other status, the status trimmed and compared ignoring case; every status
\* has one of the four icons.
C26_StatusIconMapping ==
    tpc = "done" =>
        /\ icon \in {iconNeutral, iconGreen, iconRed, iconYellow}
        /\ icon = iconNeutral <=> TrimSpace(rawStatus) = <<>>
        /\ icon = iconGreen <=> StatusIs(rawStatus, {strOperational, strResolved, strCompleted})
        /\ icon = iconRed <=> StatusIs(rawStatus, {strMajorOutage, strOutage, strCritical})

\* C26 witness: a padded upper-case status got the green icon
C26_Witness ==
    /\ tpc = "done"
    /\ rawStatus = strOperationalPadded
    /\ icon = iconGreen

(***************************************************************************)
(* Structured output.  A JSON document is a function from the keys that   *)
(* were written to their values, an array is a sequence; a field tagged   *)
(* omitempty is written only if it is not empty.                          *)
(***************************************************************************)
\* "https://www.githubstatus.com/" (config.go 12, client.go 211)
statusSiteURL == <<104, 116, 116, 112, 115, 58, 47, 47, 119, 119, 119, 46, 103, 105, 116, 104, 117, 98, 115, 116, 97, 116, 117, 115, 46, 99, 111, 109, 47>>
\* "a  b"
bodySpaced == <<97, 32, 32, 98>>
\* " MAJOR_OUTAGE "
strMajorOutagePadded == <<32, 77, 65, 74, 79, 82, 95, 79, 85, 84, 65, 71, 69, 32>>
\* "https://stspg.io/a"
linkA == <<104, 116, 116, 112, 115, 58, 47, 47, 115, 116, 115, 112, 103, 46, 105, 111, 47, 97>>

\* the icons of statusIcon of the retry-capable run, as the bytes of the
\* string literals at client.go 837, 839, 841 and 843
iconNeutralRetry == <<226, 128, 154, 195, 182, 226, 132, 162, 195, 148, 226, 136, 143, 195, 168>>
iconGreenRetry == <<239, 163, 191, 195, 188, 195, 188, 194, 162>>
iconRedRetry == <<239, 163, 191, 195, 188, 195, 174, 194, 165>>
iconYellowRetry == <<239, 163, 191, 195, 188, 195, 188, 194, 176>>

\* client.go 834-845 (the retry-capable run)
statusIconRetry(status) ==
    LET s == ToLower(TrimSpace(status))
    IN  IF s = <<>> THEN iconNeutralRetry
        ELSE IF s \in {strOperational, strResolved, strCompleted} THEN iconGreenRetry
        ELSE IF s \in {strMajorOutage, strOutage, strCritical} THEN iconRedRetry
        ELSE iconYellowRetry

\* strings.Fields from byte i on
RECURSIVE SpaceFieldsFrom(_, _, _, _)
SpaceFieldsFrom(s, i, start, acc) ==
    IF i > Len(s)
    THEN (IF start > 0 THEN Append(acc, SubSeq(s, start, Len(s))) ELSE acc)
    ELSE IF unicodeIsSpace(DecodeRune(s, i).rune)
    THEN SpaceFieldsFrom(s, i + DecodeRune(s, i).width, 0,
                         IF start > 0 THEN Append(acc, SubSeq(s, start, i - 1)) ELSE acc)
    ELSE SpaceFieldsFrom(s, i + DecodeRune(s, i).width, IF start > 0 THEN start ELSE i, acc)

Fields(s) == SpaceFieldsFrom(s, 1, 0, <<>>)

\* report.go 113-115, client.go 619-621
summarizeBody(body) == Join(Fields(body), 1)

\* the document without keys
NoKeys == [k \in {} |-> <<>>]

\* a field without omitempty that is always written
Always(key, value, empty) == key :> value

\* encoding/json on a field tagged omitempty (render.go 120-121, 135-137)
OmitEmpty(key, value, empty) == IF value = empty THEN NoKeys ELSE key :> value

\* render.go 123-128 and 88-93: a jsonComponent as the encoder writes it
jsonComponent(comp) ==
    ("name" :> comp.Name)
    @@ ("status" :> ToLower(TrimSpace(comp.Status)))
    @@ ("status_text" :> formatStatus(comp.Status))
    @@ ("icon" :> statusIcon(comp.Status))

\* render.go 141-146 and 165-170: a jsonIncidentUpdate as the encoder writes it
jsonIncidentUpdate(update) ==
    ("status" :> ToLower(TrimSpace(update.Status)))
    @@ ("status_text" :> formatStatus(update.Status))
    @@ ("body" :> summarizeBody(update.Body))
    @@ ("created_at" :> update.CreatedAt)

\* render.go 148-174 and 131-139: the jsonIncident of an incident as the
\* encoder writes it; t.Format(time.RFC3339) is the RFC3339 text of the day
buildJSONIncident(inc) ==
    LET UpdatedAt == IF inc.UpdatedAt = EmptyTS /\ incidentTime(inc) # ZeroTime
                     THEN Day(incidentTime(inc)) ELSE inc.UpdatedAt
        shownUpdates == summarizeUpdates(inc.IncidentUpdates)
        Updates == [i \in 1..Len(shownUpdates) |-> jsonIncidentUpdate(shownUpdates[i])]
    IN  ("name" :> inc.Name)
        @@ ("impact" :> ToLower(TrimSpace(inc.Impact)))
        @@ ("status" :> ToLower(TrimSpace(inc.Status)))
        @@ ("status_text" :> formatStatus(inc.Status))
        @@ OmitEmpty("shortlink", inc.Shortlink, <<>>)
        @@ OmitEmpty("updated_at", UpdatedAt, EmptyTS)
        @@ OmitEmpty("updates", Updates, <<>>)

\* render.go 81-114 and 116-122: the document the encoder writes;
\* time.Now() is NowDay
renderJSON(rep) ==
    ("generated_at" :> Day(NowDay))
    @@ ("status_page" :> statusSiteURL)
    @@ ("components" :> [i \in 1..Len(rep.Components) |-> jsonComponent(rep.Components[i])])
    @@ OmitEmpty("active_incidents",
                 [i \in 1..Len(rep.Active) |-> buildJSONIncident(rep.Active[i])], <<>>)
    @@ OmitEmpty("resolved_incidents",
                 [i \in 1..Len(rep.Resolved) |-> buildJSONIncident(rep.Resolved[i])], <<>>)

\* client.go 623-629 (the retry-capable run): the lists summarizeUpdates
\* can return, one for every outcome of the sort
summarizeUpdatesRetry(updates) ==
    {IF Len(sorted) > maxIncidentUpdates THEN SubSeq(sorted, 1, maxIncidentUpdates) ELSE sorted :
        sorted \in sortIncidentUpdates(updates)}

\* client.go 756-761 and 736-741: a componentReport as the encoder writes it
componentReport(comp) ==
    ("name" :> comp.Name)
    @@ ("status" :> ToLower(TrimSpace(comp.Status)))
    @@ ("status_text" :> formatStatus(comp.Status))
    @@ ("icon" :> statusIconRetry(comp.Status))

\* client.go 781-812 and 763-772: the incidentReports buildIncidentReport
\* can return, as the encoder writes them.  LatestUpdate points at the
\* element appended first; the later appends leave that element as it is.
buildIncidentReport(inc) ==
    {LET UpdatedAt == IF inc.UpdatedAt = EmptyTS /\ t # ZeroTime THEN Day(t) ELSE inc.UpdatedAt
         Updates == [i \in 1..Len(sortedUpdates) |-> jsonIncidentUpdate(sortedUpdates[i])]
         LatestUpdate == IF Len(sortedUpdates) > 0 THEN <<Updates[1]>> ELSE <<>>
     IN  ("name" :> inc.Name)
         @@ ("impact" :> ToLower(TrimSpace(inc.Impact)))
         @@ ("status" :> ToLower(TrimSpace(inc.Status)))
         @@ ("status_text" :> formatStatus(inc.Status))
         @@ OmitEmpty("shortlink", inc.Shortlink, <<>>)
         @@ OmitEmpty("updated_at", UpdatedAt, EmptyTS)
         @@ (IF LatestUpdate = <<>> THEN NoKeys ELSE "latest_update" :> LatestUpdate[1])
         @@ OmitEmpty("updates", Updates, <<>>) :
        sortedUpdates \in summarizeUpdatesRetry(inc.IncidentUpdates),
        t \in incidentTimeRetry(inc)}

\* client.go 721-754 (the retry-capable run): the documents the encoder
\* can write; data.ActiveIncidents and data.ResolvedIncidents are the
\* Active and Resolved of the report
renderJSONRetry(data) ==
    {("components" :> [i \in 1..Len(data.Components) |-> componentReport(data.Components[i])])
     @@ OmitEmpty("active_incidents", active, <<>>)
     @@ OmitEmpty("resolved_incidents", resolved, <<>>)
     @@ ("status_page" :> statusSiteURL)
     @@ ("generated_at" :> Day(NowDay)) :
        active \in ChoicesOf([i \in 1..Len(data.Active) |-> buildIncidentReport(data.Active[i])]),
        resolved \in ChoicesOf([i \in 1..Len(data.Resolved) |-> buildIncidentReport(data.Resolved[i])])}

(***************************************************************************)
(* renderJSON of both generations on bounded reports                      *)
(***************************************************************************)
MaxShown == 2

RenderUpdate(d) == [Status |-> strInvestigating, Body |-> bodySpaced, CreatedAt |-> Day(d)]

\* no update; two updates, the older first; more updates than are shown
RenderUpdateLists ==
    {<<>>,
     <<RenderUpdate(1), RenderUpdate(MaxDay)>>,
     <<RenderUpdate(1), RenderUpdate(1), RenderUpdate(2), RenderUpdate(MaxDay)>>}

RenderIncident(name, link, updatedAt, updates) ==
    [ID |-> <<>>, Name |-> name, Status |-> strResolvedUpper, Impact |-> strMajorPadded,
     Shortlink |-> link, CreatedAt |-> EmptyTS, UpdatedAt |-> updatedAt,
     IncidentUpdates |-> updates]

RenderIncidents ==
    {RenderIncident(name, <<>>, EmptyTS, updates) :
        name \in {strApi, strGit}, updates \in RenderUpdateLists}
    \cup {RenderIncident(strIncident, linkA, Day(2), <<>>)}

RenderComponentLists ==
    {<<>>,
     <<[Name |-> strApi, Status |-> strOperational, Group |-> FALSE]>>,
     <<[Name |-> strApi, Status |-> strMajorOutagePadded, Group |-> FALSE],
       [Name |-> strGit, Status |-> strOperational, Group |-> FALSE]>>}

RenderResolvedLists ==
    {<<>>,
     <<RenderIncident(strIncident, linkA, Day(2), <<>>)>>,
     <<RenderIncident(strGit, <<>>, EmptyTS, <<RenderUpdate(MaxDay)>>),
       RenderIncident(strApi, <<>>, Day(1), <<>>)>>}

RenderReports ==
    {[Components |-> comps, Active |-> active, Resolved |-> resolved] :
        comps \in RenderComponentLists,
        active \in SeqsUpTo(RenderIncidents, MaxShown),
        resolved \in RenderResolvedLists}

InitRender ==
    /\ StatusIdle
    /\ FetchIdle
    /\ FilterIdle
    /\ ReportIdle
    /\ RankIdle
    /\ CompIdle
    /\ MainIdle
    /\ doc \in RenderReports
    /\ jpc = "input"
    /\ jsonOut = <<>>
    /\ jsonOutRetry = <<>>

\* render.go 81-114
CallRenderJSON ==
    /\ jpc = "input"
    /\ jsonOut' = renderJSON(doc)
    /\ jpc' = "rendered"
    /\ UNCHANGED <<doc, jsonOutRetry, fetchVars, filterVars, reportVars, rankVars, compVars, mainVars, statusVars>>

\* client.go 721-754
CallRenderJSONRetry ==
    /\ jpc = "rendered"
    /\ jsonOutRetry' \in renderJSONRetry(doc)
    /\ jpc' = "done"
    /\ UNCHANGED <<doc, jsonOut, fetchVars, filterVars, reportVars, rankVars, compVars, mainVars, statusVars>>

NextRender == CallRenderJSON \/ CallRenderJSONRetry

SpecRender == InitRender /\ [][NextRender]_vars

(***************************************************************************)
(* Properties of the structured output                                    *)
(***************************************************************************)
\* the incident records of a document
IncidentRecords(j) ==
    (IF "active_incidents" \in DOMAIN j
     THEN {j["active_incidents"][i] : i \in 1..Len(j["active_incidents"])} ELSE {})
    \cup (IF "resolved_incidents" \in DOMAIN j
          THEN {j["resolved_incidents"][i] : i \in 1..Len(j["resolved_incidents"])} ELSE {})

\* every incident record with an update has a latest-update entry equal to
\* the first element of its updates
LatestUpdateFirst(j) ==
    \A rec \in IncidentRecords(j) :
        "updates" \in DOMAIN rec =>
            /\ "latest_update" \in DOMAIN rec
            /\ rec["latest_update"] = rec["updates"][1]

\* C23: in the structured output of both generations every incident record
\* that has at least one update carries a latest-update entry, and the
\* entry equals the first element of the record's updates array.
C23_LatestUpdateEntry ==
    /\ jpc \in {"rendered", "done"} => LatestUpdateFirst(jsonOut)
    /\ jpc = "done" => LatestUpdateFirst(jsonOutRetry)

\* the structured output of the retry-capable run has the latest-update
\* entry, equal to the first of the updates, which is the newest of them
RetryLatestUpdateEntry ==
    jpc = "done" =>
        /\ LatestUpdateFirst(jsonOutRetry)
        /\ \A rec \in IncidentRecords(jsonOutRetry) :
            "updates" \in DOMAIN rec =>
                \A i \in 1..Len(rec["updates"]) :
                    rec["latest_update"]["created_at"].day >= rec["updates"][i]["created_at"].day

\* record i of the array is the record of element i of the list
MirrorsComponents(records, components) ==
    /\ Len(records) = Len(components)
    /\ \A i \in 1..Len(components) :
        /\ records[i]["name"] = components[i].Name
        /\ EqualFold(records[i]["status"], TrimSpace(components[i].Status))

MirrorsIncidents(j, key, incidents) ==
    /\ key \in DOMAIN j <=> incidents # <<>>
    /\ incidents # <<>> =>
        /\ Len(j[key]) = Len(incidents)
        /\ \A i \in 1..Len(incidents) :
            /\ j[key][i]["name"] = incidents[i].Name
            /\ EqualFold(j[key][i]["status"], TrimSpace(incidents[i].Status))
            /\ "shortlink" \in DOMAIN j[key][i] <=> incidents[i].Shortlink # <<>>
            /\ "updates" \in DOMAIN j[key][i] <=> incidents[i].IncidentUpdates # <<>>
            /\ incidents[i].IncidentUpdates # <<>> =>
                Len(j[key][i]["updates"]) = Min(Len(incidents[i].IncidentUpdates), 3)

MirrorsReport(j, rep) ==
    /\ MirrorsComponents(j["components"], rep.Components)
    /\ MirrorsIncidents(j, "active_incidents", rep.Active)
    /\ MirrorsIncidents(j, "resolved_incidents", rep.Resolved)
    /\ j["status_page"] = statusSiteURL

\* C24: the document renderJSON writes has one record per component of the
\* report in the report's order, one record per Active and per Resolved
\* incident in the report's order, no active_incidents or
\* resolved_incidents key when the list is empty, and the site URL as
\* status_page; in both generations.
C24_RenderJSONMirrorsReport ==
    /\ jpc \in {"rendered", "done"} => MirrorsReport(jsonOut, doc)
    /\ jpc = "done" => MirrorsReport(jsonOutRetry, doc)

\* C24 witness: two components, two active incidents of different names, no
\* resolved incident: the document has active_incidents and no
\* resolved_incidents
C24_Witness ==
    /\ jpc = "done"
    /\ Len(doc.Components) = 2
    /\ Len(doc.Active) = 2
    /\ doc.Active[1].Name # doc.Active[2].Name
    /\ doc.Resolved = <<>>
    /\ "active_incidents" \in DOMAIN jsonOut
    /\ "resolved_incidents" \notin DOMAIN jsonOut

====
